---------------------------- MODULE Spec2Model ----------------------------
(***************************************************************************)
(* A model of CappBot (src/main/cappbot.py, src/main/default_settings.py): *)
(* the reconciliation run over GitHub issues, its comment command parser,  *)
(* label policy, vote tally, snapshot database and paper trail formatter.  *)
(*                                                                         *)
(* Text that the program parses (comment bodies, issue titles) is a        *)
(* sequence whose elements are characters (one-character strings).  A      *)
(* stretch of prose that holds no line break and no character of a command *)
(* (a sentence of a paper trail, the free wording of a title) may be       *)
(* written as one element: the grammars below treat it as a character that *)
(* is in none of their classes.  Join gives the string a text spells.      *)
(* Names the program only compares, sorts and prints (labels, milestone    *)
(* titles, logins) are strings, and Chars decodes a name into its          *)
(* characters where the code looks into it.                                *)
(***************************************************************************)
EXTENDS Integers, Sequences, FiniteSets, TLC

\* Python's None where a name is expected, and False in the open/close flags.
None == "None"
False == "False"

\* An optional value (a vote tally, an id, a time, a list): <<>> is None, <<n>> is n.
NoneInt == <<>>
Some(n) == <<n>>

(***************************************************************************)
(* Characters                                                              *)
(***************************************************************************)
LowerAlpha == <<"a","b","c","d","e","f","g","h","i","j","k","l","m",
                "n","o","p","q","r","s","t","u","v","w","x","y","z">>
UpperAlpha == <<"A","B","C","D","E","F","G","H","I","J","K","L","M",
                "N","O","P","Q","R","S","T","U","V","W","X","Y","Z">>
DigitChars == <<"0","1","2","3","4","5","6","7","8","9">>

\* The characters of the model in ascending code point order (Python compares
\* unicode strings by code point).
Ascii == <<"\n", " ", "#", "'", "*", "+", "-", ".">> \o DigitChars \o <<":", "=">>
         \o UpperAlpha \o <<"[", "]", "_">> \o LowerAlpha

Range(s) == {s[i] : i \in DOMAIN s}

Ord(c) == CHOOSE i \in DOMAIN Ascii : Ascii[i] = c

IsDigit(c) == c \in Range(DigitChars)

\* \w without re.UNICODE: [a-zA-Z0-9_]
IsWordChar(c) == c \in Range(LowerAlpha) \cup Range(UpperAlpha) \cup Range(DigitChars) \cup {"_"}

\* [-\w\d_#]
IsTokenChar(c) == IsWordChar(c) \/ c \in {"-", "#"}

\* [-\w\d _#]
IsTokenOrSpaceChar(c) == IsTokenChar(c) \/ c = " "

IsSpace(c) == c \in {" ", "\n"}

LowerChar(c) ==
    IF \E i \in DOMAIN UpperAlpha : UpperAlpha[i] = c
    THEN LowerAlpha[CHOOSE i \in DOMAIN UpperAlpha : UpperAlpha[i] = c]
    ELSE c

\* unicode.lower()
Lower(t) == [i \in DOMAIN t |-> LowerChar(t[i])]

RECURSIVE Join(_)
\* The string whose characters are t.
Join(t) == IF t = <<>> THEN "" ELSE Head(t) \o Join(Tail(t))

RECURSIVE LStrip(_)
LStrip(t) == IF t # <<>> /\ IsSpace(Head(t)) THEN LStrip(Tail(t)) ELSE t

RECURSIVE RStrip(_)
RStrip(t) == IF t # <<>> /\ IsSpace(t[Len(t)]) THEN RStrip(SubSeq(t, 1, Len(t) - 1)) ELSE t

\* unicode.strip()
Strip(t) == RStrip(LStrip(t))

StartsWith(t, prefix) ==
    /\ Len(t) >= Len(prefix)
    /\ SubSeq(t, 1, Len(prefix)) = prefix

\* t without its first n characters
Drop(t, n) == SubSeq(t, n + 1, Len(t))

\* Lexicographic order on texts by code point, as Python's sorted() on unicode.
RECURSIVE TextLess(_, _)
TextLess(a, b) ==
    IF b = <<>> THEN FALSE
    ELSE IF a = <<>> THEN TRUE
    ELSE IF Head(a) = Head(b) THEN TextLess(Tail(a), Tail(b))
    ELSE Ord(Head(a)) < Ord(Head(b))


(***************************************************************************)
(* Names: every label, milestone title and login of the model, spelled out *)
(* so that the code's lower(), startswith() and sorted() can be computed.  *)
(***************************************************************************)
NameChars ==
    ("#new" :> <<"#","n","e","w">>) @@
    ("#acknowledged" :> <<"#","a","c","k","n","o","w","l","e","d","g","e","d">>) @@
    ("#accepted" :> <<"#","a","c","c","e","p","t","e","d">>) @@
    ("#wont-fix" :> <<"#","w","o","n","t","-","f","i","x">>) @@
    ("#works-for-me" :> <<"#","w","o","r","k","s","-","f","o","r","-","m","e">>) @@
    ("#fixed" :> <<"#","f","i","x","e","d">>) @@
    ("#duplicate" :> <<"#","d","u","p","l","i","c","a","t","e">>) @@
    ("#ready-to-commit" :> <<"#","r","e","a","d","y","-","t","o","-","c","o","m","m","i","t">>) @@
    ("#needs-confirmation" :> <<"#","n","e","e","d","s","-","c","o","n","f","i","r","m","a","t","i","o","n">>) @@
    ("#needs-info" :> <<"#","n","e","e","d","s","-","i","n","f","o">>) @@
    ("#needs-review" :> <<"#","n","e","e","d","s","-","r","e","v","i","e","w">>) @@
    ("#needs-docs" :> <<"#","n","e","e","d","s","-","d","o","c","s">>) @@
    ("#needs-improvement" :> <<"#","n","e","e","d","s","-","i","m","p","r","o","v","e","m","e","n","t">>) @@
    ("#needs-patch" :> <<"#","n","e","e","d","s","-","p","a","t","c","h">>) @@
    ("#needs-reduction" :> <<"#","n","e","e","d","s","-","r","e","d","u","c","t","i","o","n">>) @@
    ("#needs-unit-test" :> <<"#","n","e","e","d","s","-","u","n","i","t","-","t","e","s","t">>) @@
    ("#needs-test" :> <<"#","n","e","e","d","s","-","t","e","s","t">>) @@
    ("#someday" :> <<"#","s","o","m","e","d","a","y">>) @@
    ("enhancement" :> <<"e","n","h","a","n","c","e","m","e","n","t">>) @@
    ("question" :> <<"q","u","e","s","t","i","o","n">>) @@
    ("bug" :> <<"b","u","g">>) @@
    ("feature" :> <<"f","e","a","t","u","r","e">>) @@
    ("AppKit" :> <<"A","p","p","K","i","t">>) @@
    ("Someday" :> <<"S","o","m","e","d","a","y">>) @@
    ("1" :> <<"1">>) @@
    ("0" :> <<"0">>) @@
    ("1.0" :> <<"1",".","0">>) @@
    ("2.0" :> <<"2",".","0">>) @@
    ("cappbot" :> <<"c","a","p","p","b","o","t">>) @@
    ("alice_tester" :> <<"a","l","i","c","e","_","t","e","s","t","e","r">>) @@
    ("bob" :> <<"b","o","b">>) @@
    ("chuck" :> <<"c","h","u","c","k">>) @@
    ("aljungberg" :> <<"a","l","j","u","n","g","b","e","r","g">>)

\* The characters of a name.
Chars(name) == NameChars[name]

NameLess(a, b) == TextLess(Chars(a), Chars(b))

RECURSIVE SortedSeq(_)
\* sorted(names) of a set of names
SortedSeq(S) ==
    IF S = {} THEN <<>>
    ELSE LET m == CHOOSE x \in S : \A y \in S \ {x} : NameLess(x, y)
         IN  <<m>> \o SortedSeq(S \ {m})

\* sorted(names) of a list of names
sorted(seq) == SortedSeq(Range(seq))

\* list.remove(x): the list without the first occurrence of x
RECURSIVE ListRemove(_, _)
ListRemove(seq, x) ==
    IF seq = <<>> THEN <<>>
    ELSE IF Head(seq) = x THEN Tail(seq)
    ELSE <<Head(seq)>> \o ListRemove(Tail(seq), x)

\* reversed(list)
Reversed(seq) == [i \in DOMAIN seq |-> seq[Len(seq) + 1 - i]]

(***************************************************************************)
(* Settings (src/main/default_settings.py)                                 *)
(***************************************************************************)
GITHUB_USER == "cappbot"

\* dict.items() of WHEN_LABEL_REMOVE_LABELS, in the order of the literal
WHEN_LABEL_REMOVE_LABELS == <<
    [trigger |-> "#acknowledged", remove |-> <<"#needs-confirmation", "#needs-info">>],
    [trigger |-> "#accepted", remove |-> <<"#needs-confirmation", "#needs-info", "#needs-review">>],
    [trigger |-> "#ready-to-commit",
     remove |-> <<"#needs-confirmation", "#needs-docs", "#needs-improvement", "#needs-info",
                  "#needs-patch", "#needs-reduction", "#needs-review", "#needs-unit-test">>],
    [trigger |-> "#fixed",
     remove |-> <<"#needs-confirmation", "#needs-docs", "#needs-improvement", "#needs-info",
                  "#needs-patch", "#needs-reduction", "#needs-review", "#needs-unit-test",
                  "#ready-to-commit">>],
    [trigger |-> "#wont-fix",
     remove |-> <<"#needs-confirmation", "#needs-docs", "#needs-improvement", "#needs-info",
                  "#needs-patch", "#needs-reduction", "#needs-review", "#needs-unit-test",
                  "#ready-to-commit">>],
    [trigger |-> "#duplicate",
     remove |-> <<"#new", "#needs-confirmation", "#needs-docs", "#needs-improvement", "#needs-info",
                  "#needs-patch", "#needs-reduction", "#needs-review", "#needs-unit-test",
                  "#ready-to-commit">>]
>>

MUTUALLY_EXCLUSIVE_LABELS == <<"#new", "#acknowledged", "#accepted", "#wont-fix", "#works-for-me", "#fixed">>

CLOSE_ISSUE_WHEN_CAPPBOT_ADDS_LABEL == <<"#wont-fix", "#works-for-me", "#fixed", "#duplicate">>

OPEN_ISSUE_WHEN_CAPPBOT_REMOVES_LABEL == CLOSE_ISSUE_WHEN_CAPPBOT_ADDS_LABEL

\* NEW_ISSUE_DEFAULTS of default_settings.py
\* (labels is an optional list: Some(list), or NoneInt where the dict has none)
DEFAULT_NEW_ISSUE_DEFAULTS == [labels |-> Some(<<"#new">>), milestone |-> "Someday", assignee |-> None]

ALL_PERMISSIONS == {"labels", "assignee", "milestone"}


(***************************************************************************)
(* State                                                                   *)
(***************************************************************************)
VARIABLES
    settings,   \* the settings module: NEW_ISSUE_DEFAULTS, PERMISSIONS (run() adds to it),
                \* IGNORE_CLOSED_ISSUES_NOT_UPDATED_SINCE_FIRST_RUN
    self,       \* the CappBot object: dry_run, memorise_forgotten, ignore, known_labels,
                \* known_milestones, collaborator_logins, should_open_issue, should_close_issue
    github,     \* the remote repository: issues, labels, milestones, collaborators, the time
    issues,     \* the Issue objects run() fetched, with _comments, _should_ignore, _force_paper_trail
    database,   \* the database dict in memory
    disk,       \* the database file
    pc,         \* where the invocation is: idle, phase1, phase2, finally (and, when __main__
                \* is followed step by step: loaded, main, blocked)
    cursor,     \* position of the issue loop of the current phase
    calls,      \* the remote mutations issued by the current invocation, in order
    history,    \* bookkeeping about the invocations so far (no program state)
    fn          \* the call under test of the function-level specifications

vars == <<settings, self, github, issues, database, disk, pc, cursor, calls, history, fn>>

(***************************************************************************)
(* Comment command grammar (src/main/cappbot.py:74-81)                     *)
(***************************************************************************)
\* [-\w\d _#]*[-\w\d_#]+ matched against the whole of t
IsLabelToken(t) ==
    /\ t # <<>>
    /\ \A i \in DOMAIN t : IsTokenOrSpaceChar(t[i])
    /\ IsTokenChar(t[Len(t)])

\* VOTE_REGEX = ^[-\+][01]$
VOTE_REGEX(line) ==
    /\ Len(line) = 2
    /\ line[1] \in {"-", "+"}
    /\ line[2] \in {"0", "1"}

\* ADD_LABEL_REGEX = ^\+([-\w\d _#]*[-\w\d_#]+)$|^(#[-\w\d _#]*[-\w\d_#]+)$
ADD_LABEL_REGEX(line) ==
    \/ /\ line # <<>>
       /\ Head(line) = "+"
       /\ IsLabelToken(Tail(line))
    \/ /\ line # <<>>
       /\ Head(line) = "#"
       /\ IsLabelToken(Tail(line))

\* m.group(1) or m.group(2) of ADD_LABEL_REGEX
AddLabelGroup(line) == IF Head(line) = "+" THEN Tail(line) ELSE line

\* REMOVE_LABEL_REGEX = ^-([-\w\d _#]*[-\w\d_#]+)$
REMOVE_LABEL_REGEX(line) ==
    /\ line # <<>>
    /\ Head(line) = "-"
    /\ IsLabelToken(Tail(line))

MilestonePrefix == <<"m","i","l","e","s","t","o","n","e","=">>
AssigneePrefix == <<"a","s","s","i","g","n","e","e","=">>

\* SET_MILESTONE_REGEX = ^milestone=(.*)$
SET_MILESTONE_REGEX(line) ==
    /\ StartsWith(line, MilestonePrefix)
    /\ \A i \in DOMAIN line : line[i] # "\n"

\* SET_ASSIGNEE_REGEX = ^assignee=([-\w\d_#]*)$
SET_ASSIGNEE_REGEX(line) ==
    /\ StartsWith(line, AssigneePrefix)
    /\ \A i \in (Len(AssigneePrefix) + 1)..Len(line) : IsTokenChar(line[i])

\* int(line) of a vote line
VoteValue(line) ==
    IF line[2] = "0" THEN 0
    ELSE IF line[1] = "-" THEN -1 ELSE 1

\* The positions of the line breaks in body
Breaks(body) == {i \in DOMAIN body : body[i] = "\n"}

\* The k-th smallest of a set of numbers
Nth(S, k) == CHOOSE x \in S : Cardinality({y \in S : y < x}) = k - 1

\* The k-th of the lines that the breaks cut body into
LineOf(body, breaks, k) ==
    SubSeq(body,
           IF k = 1 THEN 1 ELSE Nth(breaks, k - 1) + 1,
           IF k = Cardinality(breaks) + 1 THEN Len(body) ELSE Nth(breaks, k) - 1)

\* body.split('\n')
Split(body) ==
    [k \in 1..(Cardinality(Breaks(body)) + 1) |-> LineOf(body, Breaks(body), k)]

\* [line.strip() for line in body.split('\n')]
StrippedLines(body) == LET ls == Split(body) IN [i \in DOMAIN ls |-> Strip(ls[i])]


(***************************************************************************)
(* Label, milestone and assignee policy (src/main/cappbot.py:262-481).     *)
(* st is the issue_working_state dict (labels, milestone, assignee)        *)
(* together with the two flags the policy sets on the bot                  *)
(* (should_open_issue, should_close_issue).                                *)
(***************************************************************************)
\* PERMISSIONS.get(login, ())
PermissionsGet(login) ==
    IF login \in DOMAIN settings.PERMISSIONS THEN settings.PERMISSIONS[login] ELSE {}

user_may_alter_labels(user) == "labels" \in PermissionsGet(user)

user_may_set_assignee(user) == "assignee" \in PermissionsGet(user)

user_may_set_milestone(user) == "milestone" \in PermissionsGet(user)

\* The known names equal to aName up to case; aName is a text.
CaseInsensitiveMatches(aName, known) == {k \in known : Lower(Chars(k)) = Lower(aName)}

\* What the loop over the known names returns: a match, or None.
FirstOrNone(found) == IF found = {} THEN None ELSE CHOOSE k \in found : TRUE

get_label_by_name(aLabel) ==
    FirstOrNone(CaseInsensitiveMatches(aLabel, self.known_labels))

get_milestone_title_by_title(aMilestone) ==
    IF aMilestone = <<>> \/ Strip(aMilestone) = <<>> THEN None
    ELSE FirstOrNone(CaseInsensitiveMatches(aMilestone, self.known_milestones))

get_assignee_login_by_name(anAssignee) ==
    IF anAssignee = <<>> \/ Strip(anAssignee) = <<>> THEN None
    ELSE FirstOrNone(CaseInsensitiveMatches(anAssignee, self.collaborator_logins))

\* any(l.lower() == label.lower() for l in configured)
InConfiguredLabels(label, configured) ==
    \E i \in DOMAIN configured : Lower(Chars(configured[i])) = Lower(Chars(label))

\* The list with the label moved to its end, or appended (cappbot.py:310-314).
MovedToEnd(labels, label) ==
    Append(IF label \in Range(labels) THEN ListRemove(labels, label) ELSE labels, label)

\* add_label once new_label_proper is looked up
AddLabelProper(new_label_proper, st) ==
    IF \/ InConfiguredLabels(new_label_proper, CLOSE_ISSUE_WHEN_CAPPBOT_ADDS_LABEL)
       \/ st.should_open_issue = new_label_proper
    THEN [st EXCEPT !.labels = MovedToEnd(@, new_label_proper),
                    !.should_open_issue = False,
                    !.should_close_issue = new_label_proper]
    ELSE [st EXCEPT !.labels = MovedToEnd(@, new_label_proper)]

add_label(new_label, st) == AddLabelProper(get_label_by_name(Chars(new_label)), st)

\* add_label_due_to_comment without the question who wrote the comment
AddLabelProperDueToCommentByAnyone(new_label_proper, comment, st) ==
    IF new_label_proper = None THEN st
    ELSE add_label(new_label_proper, st)

\* add_label_due_to_comment once new_label_proper is looked up
AddLabelProperDueToComment(new_label_proper, comment, st) ==
    IF new_label_proper = None THEN st
    ELSE IF ~user_may_alter_labels(comment.user) THEN st
    ELSE add_label(new_label_proper, st)

\* new_label is the text of the command
add_label_due_to_comment(new_label, comment, st) ==
    AddLabelProperDueToComment(get_label_by_name(new_label), comment, st)

\* RemoveLabelProper without the side effects of a removal
RemoveLabelProperQuietly(remove_label_proper, st) ==
    IF remove_label_proper \notin Range(st.labels) THEN st
    ELSE [st EXCEPT !.labels = ListRemove(@, remove_label_proper)]

\* remove_label once remove_label_proper is looked up
RemoveLabelProper(remove_label_proper, st) ==
    IF remove_label_proper \notin Range(st.labels) THEN st
    ELSE IF \/ InConfiguredLabels(remove_label_proper, OPEN_ISSUE_WHEN_CAPPBOT_REMOVES_LABEL)
            \/ st.should_close_issue = remove_label_proper
    THEN [st EXCEPT !.labels = ListRemove(@, remove_label_proper),
                    !.should_open_issue = remove_label_proper,
                    !.should_close_issue = False]
    ELSE [st EXCEPT !.labels = ListRemove(@, remove_label_proper)]

remove_label(label, st) == RemoveLabelProper(get_label_by_name(Chars(label)), st)

\* remove_label_due_to_comment once remove_label_proper is looked up
RemoveLabelProperDueToComment(remove_label_proper, comment, st) ==
    IF remove_label_proper \notin self.known_labels THEN st
    ELSE IF ~user_may_alter_labels(comment.user) THEN st
    ELSE remove_label(remove_label_proper, st)

\* label is the text of the command
remove_label_due_to_comment(label, comment, st) ==
    RemoveLabelProperDueToComment(get_label_by_name(label), comment, st)

\* set_milestone once new_milestone_proper is looked up
SetMilestoneProper(new_milestone_proper, st) ==
    IF new_milestone_proper = st.milestone THEN st
    ELSE [st EXCEPT !.milestone = new_milestone_proper]

\* new_milestone is a milestone title or None
set_milestone(new_milestone, st) ==
    SetMilestoneProper(IF new_milestone = None THEN None
                         ELSE get_milestone_title_by_title(Chars(new_milestone)), st)

\* set_milestone_due_to_comment once the title is looked up; given tells
\* whether the command named a milestone
SetMilestoneProperDueToComment(given, new_milestone_proper, comment, st) ==
    IF given /\ new_milestone_proper = None THEN st
    ELSE IF ~user_may_set_milestone(comment.user) THEN st
    ELSE set_milestone(new_milestone_proper, st)

\* new_milestone is the text after "milestone="
set_milestone_due_to_comment(new_milestone, comment, st) ==
    SetMilestoneProperDueToComment(
        new_milestone # <<>>,
        IF new_milestone # <<>> THEN get_milestone_title_by_title(new_milestone) ELSE None,
        comment, st)

\* set_assignee once new_assignee_proper is looked up
SetAssigneeProper(new_assignee_proper, st) ==
    IF new_assignee_proper = st.assignee THEN st
    ELSE [st EXCEPT !.assignee = new_assignee_proper]

\* new_assignee is a login or None
set_assignee(new_assignee, st) ==
    SetAssigneeProper(IF new_assignee = None THEN None
                        ELSE get_assignee_login_by_name(Chars(new_assignee)), st)

\* set_assignee_due_to_comment once the login is looked up; given tells
\* whether the command named an assignee
SetAssigneeProperDueToComment(given, new_assignee_proper, comment, st) ==
    IF given /\ new_assignee_proper = None THEN st
    ELSE IF ~user_may_set_assignee(comment.user) THEN st
    ELSE set_assignee(new_assignee_proper, st)

\* new_assignee is the text after "assignee="
set_assignee_due_to_comment(new_assignee, comment, st) ==
    SetAssigneeProperDueToComment(
        new_assignee # <<>>,
        IF new_assignee # <<>> THEN get_assignee_login_by_name(new_assignee) ELSE None,
        comment, st)

\* InterpretLine with the label grammars tried before the vote grammar
InterpretLineLabelsFirst(line, comment, st) ==
    IF ADD_LABEL_REGEX(line)
    THEN add_label_due_to_comment(Lower(AddLabelGroup(line)), comment, st)
    ELSE IF REMOVE_LABEL_REGEX(line)
    THEN remove_label_due_to_comment(Lower(Tail(line)), comment, st)
    ELSE IF VOTE_REGEX(line) THEN st
    ELSE IF SET_MILESTONE_REGEX(line)
    THEN set_milestone_due_to_comment(Lower(Drop(line, Len(MilestonePrefix))), comment, st)
    ELSE IF SET_ASSIGNEE_REGEX(line)
    THEN set_assignee_due_to_comment(Lower(Drop(line, Len(AssigneePrefix))), comment, st)
    ELSE st

\* One stripped line of a comment: the body of the loop over the lines
\* (cappbot.py:426-455); the first grammar that matches decides.
InterpretLine(line, comment, st) ==
    IF VOTE_REGEX(line) THEN st
    ELSE IF ADD_LABEL_REGEX(line)
    THEN add_label_due_to_comment(Lower(AddLabelGroup(line)), comment, st)
    ELSE IF REMOVE_LABEL_REGEX(line)
    THEN remove_label_due_to_comment(Lower(Tail(line)), comment, st)
    ELSE IF SET_MILESTONE_REGEX(line)
    THEN set_milestone_due_to_comment(Lower(Drop(line, Len(MilestonePrefix))), comment, st)
    ELSE IF SET_ASSIGNEE_REGEX(line)
    THEN set_assignee_due_to_comment(Lower(Drop(line, Len(AssigneePrefix))), comment, st)
    ELSE st

RECURSIVE InterpretLines(_, _, _)
\* the loop over the lines: next is the state the first line leaves
InterpretLines(lines, comment, st) ==
    IF lines = <<>> THEN st
    ELSE CHOOSE last \in {InterpretLines(rest, comment, next) :
                             rest \in {Tail(lines)},
                             next \in {InterpretLine(Head(lines), comment, st)}} : TRUE

\* One comment: the body of the loop over new_comments (cappbot.py:422-455)
InterpretComment(comment, st) ==
    IF comment.body = <<>> THEN st
    ELSE InterpretLines(StrippedLines(comment.body), comment, st)

RECURSIVE InterpretCommentsBackwards(_, _)
\* The comments interpreted from the newest to the oldest
InterpretCommentsBackwards(comments, st) ==
    IF comments = <<>> THEN st
    ELSE CHOOSE last \in {InterpretCommentsBackwards(rest, next) :
                             rest \in {SubSeq(comments, 1, Len(comments) - 1)},
                             next \in {InterpretComment(comments[Len(comments)], st)}} : TRUE

RECURSIVE InterpretComments(_, _)
\* the loop over new_comments: next is the state the first comment leaves
InterpretComments(comments, st) ==
    IF comments = <<>> THEN st
    ELSE CHOOSE last \in {InterpretComments(rest, next) :
                             rest \in {Tail(comments)},
                             next \in {InterpretComment(Head(comments), st)}} : TRUE

\* sorted(comments, key=attrgetter('id'))
RECURSIVE SortedById(_)
SortedById(S) ==
    IF S = {} THEN <<>>
    ELSE LET m == CHOOSE c \in S : \A d \in S : c.id <= d.id
         IN  <<m>> \o SortedById(S \ {m})

\* The loop that returns the comment with the recorded id as well
NewCommentsFromRecorded(comments, ordered, latest_seen_comment_id, hits) ==
    IF hits = {} THEN <<>>
    ELSE LET n == CHOOSE k \in hits : \A j \in hits : k <= j
         IN  SubSeq(comments, n, Len(comments))

\* The loop of get_new_comments: ordered is the comments sorted by id, hits
\* the positions in it of the ids that are no older than the latest seen one.
NewCommentsFrom(comments, ordered, latest_seen_comment_id, hits) ==
    IF hits = {} THEN <<>>
    ELSE LET n == CHOOSE k \in hits : \A j \in hits : k <= j
         IN  IF ordered[n].id = latest_seen_comment_id
             THEN SubSeq(comments, n + 1, Len(comments))
             ELSE SubSeq(comments, n, Len(comments))

NewCommentsSince(comments, ordered, latest_seen_comment_id) ==
    NewCommentsFrom(comments, ordered, latest_seen_comment_id,
                    {n \in DOMAIN ordered : ordered[n].id >= latest_seen_comment_id})

\* record is the issue's snapshot, comments the fetched issue._comments
get_new_comments(record, comments) ==
    IF record.latest_seen_comment_id = NoneInt THEN comments
    ELSE NewCommentsSince(comments, SortedById(Range(comments)), record.latest_seen_comment_id[1])

\* new_comments is get_new_comments(issue)
updated_state_by_interpreting_new_comments(new_comments, st) ==
    InterpretComments(new_comments,
        [st EXCEPT !.labels = [i \in DOMAIN @ |-> get_label_by_name(Chars(@[i]))]])

RECURSIVE RemoveAll(_, _)
\* remove_label for each label of the list that is in the working labels
RemoveAll(labels_to_remove, st) ==
    IF labels_to_remove = <<>> THEN st
    ELSE RemoveAll(Tail(labels_to_remove),
                   IF Head(labels_to_remove) \in Range(st.labels)
                   THEN remove_label(Head(labels_to_remove), st)
                   ELSE st)

RECURSIVE CascadeRemovals(_, _)
\* the loop over WHEN_LABEL_REMOVE_LABELS.items() (cappbot.py:461-467)
CascadeRemovals(rules, st) ==
    IF rules = <<>> THEN st
    ELSE CHOOSE last \in {CascadeRemovals(rest, next) :
                             rest \in {Tail(rules)},
                             next \in {IF Head(rules).trigger \in Range(st.labels)
                                       THEN RemoveAll(Head(rules).remove, st)
                                       ELSE st}} : TRUE

IsExclusive(label) == label \in Range(MUTUALLY_EXCLUSIVE_LABELS)

\* The labels of `backwards` after the first exclusive one that are exclusive too.
ConflictingLabels(backwards, exclusive) ==
    IF exclusive = {} THEN <<>>
    ELSE SelectSeq(SubSeq(backwards, (CHOOSE k \in exclusive : \A j \in exclusive : k <= j) + 1,
                          Len(backwards)),
                   IsExclusive)

\* the loop of RemoveConflicting over the labels as they stand, not reversed
RemoveConflictingForwards(st) ==
    RemoveAll(ConflictingLabels(st.labels, {n \in DOMAIN st.labels : IsExclusive(st.labels[n])}),
              st)

\* the loop over the reversed labels (cappbot.py:469-479)
RemoveConflicting(st) ==
    RemoveAll(ConflictingLabels(Reversed(st.labels),
                                {n \in DOMAIN st.labels : IsExclusive(Reversed(st.labels)[n])}),
              st)

updated_state_per_label_removal_rules(st) ==
    RemoveConflicting(CascadeRemovals(WHEN_LABEL_REMOVE_LABELS, st))

(***************************************************************************)
(* Vote tally (src/main/cappbot.py:483-515)                                *)
(***************************************************************************)
\* A dict in which the first value set for a login stays
DictSetOnce(votes, login, value) ==
    [u \in DOMAIN votes \cup {login} |-> IF u \in DOMAIN votes THEN votes[u] ELSE value]

\* votes[login] = value
DictSet(votes, login, value) ==
    [u \in DOMAIN votes \cup {login} |-> IF u = login THEN value ELSE votes[u]]

RECURSIVE VotesOfLines(_, _, _)
\* the loop over the lines of one comment: votes[comment.user.login] = int(line)
VotesOfLines(lines, user, votes) ==
    IF lines = <<>> THEN votes
    ELSE VotesOfLines(Tail(lines), user,
                      IF VOTE_REGEX(Head(lines))
                      THEN DictSet(votes, user, VoteValue(Head(lines)))
                      ELSE votes)

\* One comment: the body of the loop over issue._comments; the lines that are
\* no votes leave votes as it is.
VotesOfComment(comment, votes) ==
    IF comment.body = <<>> THEN votes
    ELSE VotesOfLines(SelectSeq(StrippedLines(comment.body), VOTE_REGEX), comment.user, votes)

RECURSIVE VotesOfComments(_, _)
\* the loop over issue._comments; votes is the dict login -> vote, next the
\* dict the first comment leaves
VotesOfComments(comments, votes) ==
    IF comments = <<>> THEN votes
    ELSE CHOOSE last \in {VotesOfComments(rest, next) :
                             rest \in {Tail(comments)},
                             next \in {VotesOfComment(Head(comments), votes)}} : TRUE

RECURSIVE SumValues(_)
\* sum(votes.values())
SumValues(votes) ==
    IF DOMAIN votes = {} THEN 0
    ELSE LET u == CHOOSE x \in DOMAIN votes : TRUE
         IN  votes[u] + SumValues([x \in DOMAIN votes \ {u} |-> votes[x]])

EmptyDict == [u \in {} |-> 0]

\* sum(votes.values()) if len(votes) else None
ScoreOf(votes) == IF DOMAIN votes # {} THEN Some(SumValues(votes)) ELSE NoneInt

\* The score recount_votes computes from issue._comments.
VoteScore(comments) == ScoreOf(VotesOfComments(comments, EmptyDict))

\* The end of recount_votes: the record with the score, and the return value.
Recounted(record, score) ==
    IF score # record.votes
    THEN [record |-> [record EXCEPT !.votes = score], changed |-> TRUE]
    ELSE [record |-> record, changed |-> FALSE]

\* record with the new tally, and whether the tally changed (the return value)
recount_votes(record, comments) == Recounted(record, VoteScore(comments))

get_vote_count(record) == record.votes

(***************************************************************************)
(* Number formatting and the vote suffix of a title                        *)
(* (src/main/cappbot.py:81, 674-681)                                       *)
(***************************************************************************)
RECURSIVE NatDigits(_)
\* the decimal digits of a natural number
NatDigits(n) ==
    IF n < 10 THEN <<DigitChars[n + 1]>>
    ELSE Append(NatDigits(n \div 10), DigitChars[(n % 10) + 1])

\* '%d' % n, as a text
FormatD(n) == IF n < 0 THEN <<"-">> \o NatDigits(-n) ELSE NatDigits(n)

\* '%+d' % n, as a text
FormatPlusD(n) == IF n < 0 THEN <<"-">> \o NatDigits(-n) ELSE <<"+">> \o NatDigits(n)

\* Where TITLE_VOTE_REGEX = ' \[[-+]\d+\]$' can match in title: a space, "[",
\* a sign, one or more digits and "]" at the end of the title.
TitleVoteStarts(title) ==
    {k \in 1..Len(title) :
        /\ Len(title) - k + 1 >= 5
        /\ title[k] = " "
        /\ title[k + 1] = "["
        /\ title[k + 2] \in {"-", "+"}
        /\ \A j \in (k + 3)..(Len(title) - 1) : IsDigit(title[j])
        /\ title[Len(title)] = "]"}

\* len(m.group(0)) of TITLE_VOTE_REGEX.search(title), 0 if there is no match
MatchLen(title, starts) ==
    IF starts = {} THEN 0
    ELSE Len(title) - (CHOOSE k \in starts : \A j \in starts : k <= j) + 1

TitleVoteMatchLen(title) == MatchLen(title, TitleVoteStarts(title))

\* issue_title[:-len(m.group(0))] if m
WithoutMatch(issue_title, m) ==
    IF m > 0 THEN SubSeq(issue_title, 1, Len(issue_title) - m) ELSE issue_title

\* The title handle_issue_changes patches when the tally changed: vote_count is
\* the recorded tally (cappbot.py:675-681).
TitleWithVotes(issue_title, vote_count) ==
    IF vote_count # NoneInt /\ vote_count[1] # 0
    THEN WithoutMatch(issue_title, TitleVoteMatchLen(issue_title))
         \o <<" ", "[">> \o FormatPlusD(vote_count[1]) \o <<"]">>
    ELSE WithoutMatch(issue_title, TitleVoteMatchLen(issue_title))

(***************************************************************************)
(* Paper trail messages (src/main/default_settings.py:124-199).  The       *)
(* message is a text; a sentence or a formatted part is one element of it  *)
(* (see the note on texts above), blanks and line breaks that strip() and  *)
(* split() can see are characters of their own.                            *)
(***************************************************************************)
LABEL_EXPLANATIONS ==
    "#needs-confirmation" :> "This issue needs a volunteer to independently reproduce the issue." @@
    "#needs-info" :> "Additional information should be added as a comment to this isuse." @@
    "#needs-review" :> "This issue is pending an architectural or implementation design decision and should be discussed or voted on." @@
    "#needs-docs" :> "Additional documentation patches should be submitted for this issue." @@
    "#needs-improvement" :> "The code for this issue has problems with formatting or fails a capp_lint check, has bugs, or has non-optimal logic or algorithms. It should be improved upon." @@
    "#needs-patch" :> "This issue needs a volunteer to write and submit code to address it." @@
    "#needs-reduction" :> "A minimal test app should be created which demonstrates the concern of this issue in isolation." @@
    "#needs-unit-test" :> "This issue needs a volunteer to write and submit one or more unit tests execercising the changes and/or the relevant parts of the original problem." @@
    "#duplicate" :> "This issue duplicates another existing issue. Refer to the duplicate issue for further information." @@
    "#fixed" :> "This issue is considered successfully resolved." @@
    "#wont-fix" :> "A reviewer or core team member has decided against acting upon this issue." @@
    "#works-for-me" :> "Attempts to reproduce the problem described by this issue have failed to reveal any erroneous situation." @@
    "#new" :> "A reviewer should examine this issue." @@
    "#accepted" :> "This issue has been confirmed but needs further review."

FINAL_WORD_LABELS == <<"#fixed", "#duplicate", "#wont-fix", "#works-for-me">>

NeedsPrefix == <<"#","n","e","e","d","s">>

RECURSIVE JoinWith(_, _)
\* sep.join(strings), as a string
JoinWith(sep, strings) ==
    IF strings = <<>> THEN ""
    ELSE IF Len(strings) = 1 THEN strings[1]
    ELSE strings[1] \o sep \o JoinWith(sep, Tail(strings))

\* "[%s](https://github.com/%s)" % (assignee, assignee)
UserLink(assignee) == "[" \o assignee \o "](https://github.com/" \o assignee \o ")"

RECURSIVE Bullets(_)
\* '\n * '.join(explanations), as a text
Bullets(explanations) ==
    IF Len(explanations) = 1 THEN <<explanations[1]>>
    ELSE <<explanations[1], "\n", " ", "*", " ">> \o Bullets(Tail(explanations))

\* [LABEL_EXPLANATIONS[label] for label in needs]
Explanations(needs) == [i \in DOMAIN needs |-> LABEL_EXPLANATIONS[needs[i]]]

\* The branch of getWhatsNextMessage after the two first ones.
NeedsMessage(needs) ==
    IF needs = <<>> THEN <<"A reviewer should examine this issue.">>
    ELSE IF Len(needs) = 1 THEN <<LABEL_EXPLANATIONS[needs[1]]>>
    ELSE <<"\n", "\n", " ", "*", " ">> \o Bullets(Explanations(needs))

IsNeed(label) == StartsWith(Chars(label), NeedsPrefix) /\ label \in DOMAIN LABEL_EXPLANATIONS

\* The loop over FINAL_WORD_LABELS: finals are the positions of those in labels.
FinalWord(finals) ==
    <<LABEL_EXPLANATIONS[FINAL_WORD_LABELS[CHOOSE i \in finals : \A j \in finals : i <= j]]>>

\* The clause with #ready-to-commit looked for before the final words
getWhatsNextMessageReadyFirst(assignee, milestone, labels) ==
    IF "#ready-to-commit" \in Range(labels)
    THEN <<"The changes for this issue are ready to be committed by "
           \o (IF assignee # None THEN UserLink(assignee) ELSE "a member of the core team")
           \o ".">>
    ELSE IF \E i \in DOMAIN FINAL_WORD_LABELS : FINAL_WORD_LABELS[i] \in Range(labels)
    THEN FinalWord({i \in DOMAIN FINAL_WORD_LABELS : FINAL_WORD_LABELS[i] \in Range(labels)})
    ELSE NeedsMessage(SelectSeq(labels, IsNeed))

\* labels is the list of the working state; the result is a text
getWhatsNextMessage(assignee, milestone, labels) ==
    IF \E i \in DOMAIN FINAL_WORD_LABELS : FINAL_WORD_LABELS[i] \in Range(labels)
    THEN FinalWord({i \in DOMAIN FINAL_WORD_LABELS : FINAL_WORD_LABELS[i] \in Range(labels)})
    ELSE IF "#ready-to-commit" \in Range(labels)
    THEN <<"The changes for this issue are ready to be committed by "
           \o (IF assignee # None THEN UserLink(assignee) ELSE "a member of the core team")
           \o ".">>
    ELSE NeedsMessage(SelectSeq(labels, IsNeed))

\* if not r: r = 'This issue has not been labeled.', then r.strip()
OrNotLabeled(r) == Strip(IF r = <<>> THEN <<"This issue has not been labeled.">> ELSE r)

\* The message left without its what's-next clause
WithoutNext(r, next) == r

\* if next: r += "**What's next?** %s" % next
WithNext(r, next) == IF next # <<>> THEN r \o <<"**What's next?**", " ">> \o next ELSE r

\* A message that tells the votes before the assignee and the milestone
getPaperTrailMessageVotesFirst(assignee, milestone, labels, votes) ==
    OrNotLabeled(WithNext(
        (IF votes # NoneInt
         THEN <<"**Vote" \o (IF votes[1] # 1 THEN "s" ELSE "") \o ":** "
                \o Join(FormatD(votes[1])) \o ".", " ", " ">>
         ELSE <<>>)
        \o (IF assignee # None
            THEN <<"**Assignee:** " \o UserLink(assignee) \o ".", " ", " ">>
            ELSE <<>>)
        \o (IF milestone # None
            THEN <<"**Milestone:** " \o milestone \o ".", " ", " ">>
            ELSE <<>>)
        \o (IF labels # <<>>
            THEN <<"**Label" \o (IF Len(labels) # 1 THEN "s" ELSE "") \o ":** "
                   \o JoinWith(", ", sorted(labels)) \o ".", " ", " ">>
            ELSE <<>>),
        getWhatsNextMessage(assignee, milestone, labels)))

\* votes is the optional tally, labels the list of the working state; the
\* result is a text, Join of which is the message
getPaperTrailMessage(assignee, milestone, labels, votes) ==
    OrNotLabeled(WithNext(
        (IF assignee # None
         THEN <<"**Assignee:** " \o UserLink(assignee) \o ".", " ", " ">>
         ELSE <<>>)
        \o (IF milestone # None
            THEN <<"**Milestone:** " \o milestone \o ".", " ", " ">>
            ELSE <<>>)
        \o (IF votes # NoneInt
            THEN <<"**Vote" \o (IF votes[1] # 1 THEN "s" ELSE "") \o ":** "
                   \o Join(FormatD(votes[1])) \o ".", " ", " ">>
            ELSE <<>>)
        \o (IF labels # <<>>
            THEN <<"**Label" \o (IF Len(labels) # 1 THEN "s" ELSE "") \o ":** "
                   \o JoinWith(", ", sorted(labels)) \o ".", " ", " ">>
            ELSE <<>>),
        getWhatsNextMessage(assignee, milestone, labels)))

(***************************************************************************)
(* The remote repository as the client shows it.  An issue of github is    *)
(* [id, number, state, title, labels, milestone, assignee, updated_at,     *)
(* comments]: labels is the list the API returns, milestone a title or     *)
(* None, assignee a login or None, comments the list of [id, user, body].  *)
(* A milestone's number is its position in github.milestones.  github.now  *)
(* is the time: every mutation and every reading of the clock advances it. *)
(***************************************************************************)
Logins == <<"cappbot", "alice_tester", "bob", "chuck", "aljungberg">>

\* user.id of a login
UserId(login) == CHOOSE i \in DOMAIN Logins : Logins[i] = login

\* milestone.number of the milestone with the given title
MilestoneNumber(gh, title) == CHOOSE n \in DOMAIN gh.milestones : gh.milestones[n] = title

\* The Issue object the client builds from the API's answer; _comments is
\* only there once check_prepare_issue loaded it (has_comments).
FetchIssue(r) ==
    [id |-> r.id, number |-> r.number, state |-> r.state, title |-> r.title,
     labels |-> r.labels, milestone |-> r.milestone, assignee |-> r.assignee,
     updated_at |-> r.updated_at, comments |-> Len(r.comments),
     has_comments |-> FALSE, _comments |-> <<>>,
     _should_ignore |-> FALSE, _force_paper_trail |-> FALSE]

\* update_from_response: the fields of the object are replaced by the answer,
\* the attributes the bot added stay.
Refreshed(issue, r) ==
    [FetchIssue(r) EXCEPT !.has_comments = issue.has_comments,
                          !._comments = issue._comments,
                          !._should_ignore = issue._should_ignore,
                          !._force_paper_trail = issue._force_paper_trail]

\* Issues.by_repository_all: the open issues, then the closed ones
by_repository_all(gh) ==
    LET all == [n \in DOMAIN gh.issues |-> FetchIssue(gh.issues[n])]
    IN  SelectSeq(all, LAMBDA i : i.state = "open") \o SelectSeq(all, LAMBDA i : i.state = "closed")

(***************************************************************************)
(* The snapshot database (src/main/cappbot.py:84-248).  db is              *)
(* [first_run, issues]; issues maps the id of every recorded issue to its  *)
(* snapshot.                                                               *)
(***************************************************************************)
is_issue_new(issue) ==
    issue.milestone = None /\ issue.assignee = None /\ issue.labels = <<>>

has_seen_issue(db, issue) == issue.id \in DOMAIN db.issues

last_seen_issue_update(db, issue) ==
    IF ~has_seen_issue(db, issue) THEN NoneInt
    ELSE db.issues[issue.id].updated_at

\* The database with `record` stored under the issue id.
WithRecord(db, id, record) ==
    [db EXCEPT !.issues = [k \in DOMAIN db.issues \cup {id} |->
                              IF k = id THEN record ELSE db.issues[k]]]

\* int(issue.milestone.number) if issue.milestone else None
MilestoneNumberOf(gh, issue) ==
    IF issue.milestone # None THEN Some(MilestoneNumber(gh, issue.milestone)) ELSE NoneInt

\* int(issue.assignee.id) if issue.assignee else None
AssigneeIdOf(issue) ==
    IF issue.assignee # None THEN Some(UserId(issue.assignee)) ELSE NoneInt

\* A snapshot that leaves the milestone out
SnapshotWithoutMilestone(gh, issue) ==
    [id |-> issue.id,
     number |-> issue.number,
     comments_count |-> issue.comments,
     milestone_number |-> NoneInt,
     assignee_id |-> AssigneeIdOf(issue),
     labels |-> sorted(issue.labels),
     updated_at |-> Some(issue.updated_at)]

\* db_issue of record_issue
Snapshot(gh, issue) ==
    [id |-> issue.id,
     number |-> issue.number,
     comments_count |-> issue.comments,
     milestone_number |-> MilestoneNumberOf(gh, issue),
     assignee_id |-> AssigneeIdOf(issue),
     labels |-> sorted(issue.labels),
     updated_at |-> Some(issue.updated_at)]

\* record_issue that stores a fresh record whether or not there is one
RecordedAfresh(db, id, db_issue) ==
    WithRecord(db, id, [f \in DOMAIN db_issue \cup {"votes", "latest_seen_comment_id"} |->
                           IF f \in DOMAIN db_issue THEN db_issue[f] ELSE NoneInt])

\* The end of record_issue: update the record there is, or store a new one.
Recorded(db, id, db_issue) ==
    IF id \in DOMAIN db.issues
    THEN WithRecord(db, id, [f \in DOMAIN db.issues[id] |->
                                IF f \in DOMAIN db_issue THEN db_issue[f] ELSE db.issues[id][f]])
    ELSE WithRecord(db, id, [f \in DOMAIN db_issue \cup {"votes", "latest_seen_comment_id"} |->
                                IF f \in DOMAIN db_issue THEN db_issue[f] ELSE NoneInt])

record_issue(db, gh, issue) == Recorded(db, issue.id, Snapshot(gh, issue))

record_latest_seen_comment(db, issue) ==
    [db EXCEPT !.issues[issue.id].latest_seen_comment_id =
        IF issue._comments # <<>> THEN Some(issue._comments[Len(issue._comments)].id) ELSE NoneInt]

\* get_issue_changes with the labels compared as lists
ChangesSinceInOrder(record, gh, issue) ==
    (IF record.labels # issue.labels THEN {"labels"} ELSE {})
    \cup (IF record.assignee_id # AssigneeIdOf(issue) THEN {"assignee"} ELSE {})
    \cup (IF record.milestone_number # MilestoneNumberOf(gh, issue) THEN {"milestone"} ELSE {})
    \cup (IF /\ issue.has_comments
             /\ issue.comments # 0
             /\ \/ record.latest_seen_comment_id = NoneInt
                \/ record.latest_seen_comment_id # Some(issue._comments[Len(issue._comments)].id)
          THEN {"comments"} ELSE {})
    \cup (IF issue._force_paper_trail THEN {"new"} ELSE {})

\* get_issue_changes on the issue's record
ChangesSince(record, gh, issue) ==
    (IF Range(record.labels) # Range(issue.labels) THEN {"labels"} ELSE {})
    \cup (IF record.assignee_id # AssigneeIdOf(issue) THEN {"assignee"} ELSE {})
    \cup (IF record.milestone_number # MilestoneNumberOf(gh, issue) THEN {"milestone"} ELSE {})
    \cup (IF /\ issue.has_comments
             /\ issue.comments # 0
             /\ \/ record.latest_seen_comment_id = NoneInt
                \/ record.latest_seen_comment_id # Some(issue._comments[Len(issue._comments)].id)
          THEN {"comments"} ELSE {})
    \cup (IF issue._force_paper_trail THEN {"new"} ELSE {})

get_issue_changes(db, gh, issue) == ChangesSince(db.issues[issue.id], gh, issue)

\* self.current_user.login is GITHUB_USER
did_comment_on(issue) ==
    /\ issue.comments > 0
    /\ \E n \in DOMAIN issue._comments : issue._comments[n].user = GITHUB_USER


(***************************************************************************)
(* Remote calls.  A handler runs on a record m that holds what it works on *)
(* (issue: the Issue object, db: the database dict, gh: the repository),   *)
(* what it did (calls: the mutations it issued, error: an exception is     *)
(* propagating), which of its mutations raises (fail, 0 for none), the     *)
(* phase, and the local variables of handle_issue_changes (changes,        *)
(* original_labels, did_change_votes, and st: issue_working_state with the *)
(* bot's should_open_issue and should_close_issue).  A call that raises    *)
(* changes nothing remotely; once error is set the rest of the handler is  *)
(* skipped.                                                                *)
(***************************************************************************)
Raises(m) == Len(m.calls) + 1 = m.fail

Raised(m, call) == [m EXCEPT !.error = TRUE, !.calls = Append(@, call @@ [ok |-> FALSE])]

\* The repository after PATCH /issues/:number with the given body
RemotePatch(gh, id, kwargs) ==
    [gh EXCEPT !.now = @ + 1,
               !.issues[id] = [f \in DOMAIN @ |->
                                  IF f = "updated_at" THEN gh.now + 1
                                  ELSE IF f \notin DOMAIN kwargs THEN @[f]
                                  ELSE IF f # "milestone" THEN kwargs[f]
                                  ELSE IF kwargs[f] = NoneInt THEN None
                                  ELSE gh.milestones[kwargs[f][1]]]]

\* update_from_response after a PATCH: gh is the repository after it
Answered(m, gh, call) ==
    [m EXCEPT !.gh = gh,
              !.issue = Refreshed(@, gh.issues[m.issue.id]),
              !.calls = Append(@, call @@ [ok |-> TRUE])]

PatchCall(m, kwargs) == [op |-> "patch", issue |-> m.issue.id, kwargs |-> kwargs, phase |-> m.phase]

\* issue.patch(**kwargs)
Patch(m, kwargs) ==
    IF m.error THEN m
    ELSE IF Raises(m) THEN Raised(m, PatchCall(m, kwargs))
    ELSE Answered(m, RemotePatch(m.gh, m.issue.id, kwargs), PatchCall(m, kwargs))

\* if not self.dry_run: issue.patch(**kwargs)
PatchUnlessDry(m, kwargs) == IF self.dry_run THEN m ELSE Patch(m, kwargs)

PostCall(m, body) == [op |-> "post", issue |-> m.issue.id, body |-> body, phase |-> m.phase]

\* The comment is created remotely; whether the list object holds it
\* afterwards depends on the client (appended).
Posted(m, comment, appended, call) ==
    [m EXCEPT !.gh.now = comment.id,
              !.gh.issues[m.issue.id].comments = Append(@, comment),
              !.gh.issues[m.issue.id].updated_at = comment.id,
              !.issue._comments = IF appended THEN Append(@, comment) ELSE @,
              !.calls = Append(@, call @@ [ok |-> TRUE])]

\* issue._comments.post(comment)
Post(m, body, appended) ==
    IF m.error THEN m
    ELSE IF Raises(m) THEN Raised(m, PostCall(m, body))
    ELSE Posted(m, [id |-> m.gh.now + 1, user |-> GITHUB_USER, body |-> body], appended,
                PostCall(m, body))

CreateCall(m, milestone_title) ==
    [op |-> "create_milestone", title |-> milestone_title, phase |-> m.phase]

\* Milestones.get_or_create_in_repository(title); the API refuses a milestone
\* without a title, so the creation raises when milestone_title is None.
get_or_create_in_repository(m, milestone_title) ==
    IF m.error THEN m
    ELSE IF milestone_title \in Range(m.gh.milestones) THEN m
    ELSE IF Raises(m) \/ milestone_title = None THEN Raised(m, CreateCall(m, milestone_title))
    ELSE [m EXCEPT !.gh.now = @ + 1,
                   !.gh.milestones = Append(@, milestone_title),
                   !.calls = Append(@, CreateCall(m, milestone_title) @@ [ok |-> TRUE])]

(***************************************************************************)
(* Phase 1 (src/main/cappbot.py:202-227, 538-603)                          *)
(***************************************************************************)
\* The keys of a patch dict that forgets the assignee
DefaultKeysWithoutAssignee(defs) ==
    (IF defs.milestone # None THEN {"milestone"} ELSE {})
    \cup (IF defs.labels # NoneInt THEN {"labels"} ELSE {})

\* The keys of the patch dict of install_issue_defaults
DefaultKeys(defs) ==
    (IF defs.milestone # None THEN {"milestone"} ELSE {})
    \cup (IF defs.labels # NoneInt THEN {"labels"} ELSE {})
    \cup (IF defs.assignee # None THEN {"assignee"} ELSE {})

\* The patch dict of install_issue_defaults
DefaultsPatch(gh, defs) ==
    [k \in DefaultKeys(defs) |->
        CASE k = "milestone" -> Some(MilestoneNumber(gh, defs.milestone))
          [] k = "labels" -> defs.labels[1]
          [] k = "assignee" -> defs.assignee]

\* if len(patch): if not self.dry_run: issue.patch(**patch)
PatchDefaults(m, defs) ==
    IF m.error \/ DefaultKeys(defs) = {} THEN m
    ELSE PatchUnlessDry(m, DefaultsPatch(m.gh, defs))

install_issue_defaults(m) ==
    PatchDefaults(IF settings.NEW_ISSUE_DEFAULTS.milestone # None
                  THEN get_or_create_in_repository(m, settings.NEW_ISSUE_DEFAULTS.milestone)
                  ELSE m,
                  settings.NEW_ISSUE_DEFAULTS)

\* first_run_date: the property stamps the database when it is first read
get_first_run_date(m) ==
    IF m.db.first_run = NoneInt
    THEN [m EXCEPT !.db.first_run = Some(m.gh.now + 1), !.gh.now = @ + 1]
    ELSE m

\* The start of the first condition of check_prepare_issue; first_run_date is
\* only read when it holds.
ClosedAndAsked(m) ==
    settings.IGNORE_CLOSED_ISSUES_NOT_UPDATED_SINCE_FIRST_RUN /\ m.issue.state = "closed"

Ignored(m) == [m EXCEPT !.issue._should_ignore = TRUE]

\* self.record_issue(issue), unless an exception is on its way
RecordIssue(m) == IF m.error THEN m ELSE [m EXCEPT !.db = record_issue(@, m.gh, m.issue)]

\* self.record_latest_seen_comment(issue)
RecordLatestSeenComment(m) ==
    IF m.error THEN m ELSE [m EXCEPT !.db = record_latest_seen_comment(@, m.issue)]

\* The record and the return value of recount_votes taken into m.
WithRecount(m, recount) ==
    [m EXCEPT !.db = WithRecord(@, m.issue.id, recount.record),
              !.did_change_votes = recount.changed]

\* did_change_votes = self.recount_votes(issue)
RecountVotes(m) == WithRecount(m, recount_votes(m.db.issues[m.issue.id], m.issue._comments))

\* The handler without the deja-vu check
PrepareLoadedWithoutDejaVu(m) ==
    IF has_seen_issue(m.db, m.issue) THEN m
    ELSE IF is_issue_new(m.issue) THEN RecordIssue(install_issue_defaults(m))
    ELSE RecordIssue([m EXCEPT !.issue._force_paper_trail = TRUE])

\* The handler that memorises every issue the bot commented on
PrepareLoadedMemorising(m) ==
    IF has_seen_issue(m.db, m.issue) THEN m
    ELSE IF did_comment_on(m.issue)
    THEN Ignored(RecordLatestSeenComment(RecountVotes(RecordIssue(m))))
    ELSE IF is_issue_new(m.issue) THEN RecordIssue(install_issue_defaults(m))
    ELSE RecordIssue([m EXCEPT !.issue._force_paper_trail = TRUE])

\* The handler that memorises without counting the votes
PrepareLoadedWithoutRecount(m) ==
    IF has_seen_issue(m.db, m.issue) THEN m
    ELSE IF did_comment_on(m.issue)
    THEN IF self.memorise_forgotten
         THEN Ignored(RecordLatestSeenComment(RecordIssue(m)))
         ELSE Ignored(m)
    ELSE IF is_issue_new(m.issue) THEN RecordIssue(install_issue_defaults(m))
    ELSE RecordIssue([m EXCEPT !.issue._force_paper_trail = TRUE])

\* check_prepare_issue from the comment download on (cappbot.py:561-603)
PrepareLoaded(m) ==
    IF has_seen_issue(m.db, m.issue) THEN m
    ELSE IF did_comment_on(m.issue)
    THEN IF self.memorise_forgotten
         THEN Ignored(RecordLatestSeenComment(RecountVotes(RecordIssue(m))))
         ELSE Ignored(m)
    ELSE IF is_issue_new(m.issue) THEN RecordIssue(install_issue_defaults(m))
    ELSE RecordIssue([m EXCEPT !.issue._force_paper_trail = TRUE])

\* Phase 1 without the download of the comments
LoadCommentsNever(m) == m

\* issue._comments = self.github.Comments.by_issue(issue)
LoadComments(m) ==
    [m EXCEPT !.issue._comments = m.gh.issues[m.issue.id].comments,
              !.issue.has_comments = TRUE]

\* check_prepare_issue that downloads the comments of every issue that is
\* not long closed
ExamineWithoutSkip(m) ==
    IF ClosedAndAsked(m) /\ m.issue.updated_at < m.db.first_run[1] THEN Ignored(m)
    ELSE PrepareLoaded(LoadComments(m))

\* check_prepare_issue that ignores every closed issue, whenever updated
ExamineSkippingClosed(m) ==
    IF ClosedAndAsked(m) THEN Ignored(m)
    ELSE IF /\ has_seen_issue(m.db, m.issue)
            /\ last_seen_issue_update(m.db, m.issue) = Some(m.issue.updated_at)
            /\ get_issue_changes(m.db, m.gh, m.issue) = {}
    THEN Ignored(m)
    ELSE PrepareLoaded(LoadComments(m))

\* check_prepare_issue from its first condition on (cappbot.py:547-603)
Examine(m) ==
    IF ClosedAndAsked(m) /\ m.issue.updated_at < m.db.first_run[1] THEN Ignored(m)
    ELSE IF /\ has_seen_issue(m.db, m.issue)
            /\ last_seen_issue_update(m.db, m.issue) = Some(m.issue.updated_at)
            /\ get_issue_changes(m.db, m.gh, m.issue) = {}
    THEN Ignored(m)
    ELSE PrepareLoaded(LoadComments(m))

\* The two assignments check_prepare_issue starts with, and the reading of
\* first_run_date.
Prepared(m) == IF ClosedAndAsked(m) THEN get_first_run_date(m) ELSE m

check_prepare_issue(m) ==
    Examine(Prepared([m EXCEPT !.issue._should_ignore = FALSE,
                               !.issue._force_paper_trail = FALSE]))

(***************************************************************************)
(* Phase 2 (src/main/cappbot.py:605-733): handle_issue_changes, one        *)
(* operator per statement group, applied in the order of the code.         *)
(***************************************************************************)
\* The handler without the forced paper trail
ForcePaperTrailNever(m) == m

\* if not self.did_comment_on(issue): issue._force_paper_trail = True
ForcePaperTrailIfSilent(m) ==
    IF ~did_comment_on(m.issue) THEN [m EXCEPT !.issue._force_paper_trail = TRUE] ELSE m

\* The start of the handler without the reset of the two flags
BeginWithoutReset(m) ==
    [m EXCEPT !.changes = get_issue_changes(m.db, m.gh, m.issue),
              !.original_labels = m.issue.labels,
              !.did_change_votes = FALSE,
              !.st = [labels |-> m.issue.labels,
                      milestone |-> m.issue.milestone,
                      assignee |-> m.issue.assignee,
                      should_open_issue |-> m.st.should_open_issue,
                      should_close_issue |-> m.st.should_close_issue]]

\* should_close_issue = should_open_issue = False, changes, original_labels
\* and issue_working_state (cappbot.py:611-628)
Begin(m) ==
    [m EXCEPT !.changes = get_issue_changes(m.db, m.gh, m.issue),
              !.original_labels = m.issue.labels,
              !.did_change_votes = FALSE,
              !.st = [labels |-> m.issue.labels,
                      milestone |-> m.issue.milestone,
                      assignee |-> m.issue.assignee,
                      should_open_issue |-> False,
                      should_close_issue |-> False]]

\* if not changes: record the issue if its update time is not known yet
NoChanges(m) ==
    IF last_seen_issue_update(m.db, m.issue) = NoneInt THEN RecordIssue(m) ELSE m

\* issue_working_state = self.updated_state_by_interpreting_new_comments(...)
InterpretNewComments(m) ==
    [m EXCEPT !.st = updated_state_by_interpreting_new_comments(
                         get_new_comments(m.db.issues[m.issue.id], m.issue._comments), @)]

\* if 'comments' in changes (cappbot.py:629-635)
CommentsStep(m) ==
    IF "comments" \in m.changes
    THEN RecountVotes(RecordLatestSeenComment(InterpretNewComments(m)))
    ELSE m

\* cappbot.py:638
RulesStep(m) == [m EXCEPT !.st = updated_state_per_label_removal_rules(@)]

\* cappbot.py:641-648
LabelsStep(m) ==
    IF Range(m.st.labels) # Range(m.original_labels)
    THEN PatchUnlessDry([m EXCEPT !.changes = @ \cup {"labels"}], [labels |-> sorted(m.st.labels)])
    ELSE m

\* issue.patch(milestone=milestone.number if milestone else None)
PatchMilestone(m) ==
    IF m.error THEN m
    ELSE Patch(m, [milestone |-> Some(MilestoneNumber(m.gh, m.st.milestone))])

\* cappbot.py:650-658
MilestoneStep(m) ==
    IF m.error \/ m.st.milestone = m.issue.milestone THEN m
    ELSE IF self.dry_run THEN [m EXCEPT !.changes = @ \cup {"milestone"}]
    ELSE PatchMilestone(get_or_create_in_repository(
             [m EXCEPT !.changes = @ \cup {"milestone"}], m.st.milestone))

\* cappbot.py:660-667
AssigneeStep(m) ==
    IF m.error \/ m.st.assignee = m.issue.assignee THEN m
    ELSE PatchUnlessDry([m EXCEPT !.changes = @ \cup {"assignee"}], [assignee |-> m.st.assignee])

\* cappbot.py:670-691: the votes change and the title
TitleStep(m) ==
    IF m.error THEN m
    ELSE IF m.did_change_votes
    THEN PatchUnlessDry([m EXCEPT !.changes = (@ \ {"comments"}) \cup {"votes"}],
                        [title |-> TitleWithVotes(m.issue.title,
                                                  get_vote_count(m.db.issues[m.issue.id]))])
    ELSE [m EXCEPT !.changes = @ \ {"comments"}]

\* cappbot.py:693-694
OrderStep(m) ==
    IF ~m.error /\ m.st.labels # m.original_labels
    THEN [m EXCEPT !.changes = @ \cup {"labels"}]
    ELSE m

\* cappbot.py:697-704
OpenStep(m) ==
    IF m.error \/ m.changes = {} THEN m
    ELSE IF m.st.should_open_issue # False /\ m.issue.state # "open"
    THEN PatchUnlessDry(m, [state |-> "open"])
    ELSE m

\* msg of cappbot.py:709
PaperTrailOf(m) ==
    getPaperTrailMessage(m.st.assignee, m.st.milestone, m.st.labels,
                         get_vote_count(m.db.issues[m.issue.id]))

\* cappbot.py:709-720
PaperTrailStep(m, appended) ==
    IF m.error \/ m.changes = {} \/ self.dry_run THEN m
    ELSE RecordLatestSeenComment(Post(m, PaperTrailOf(m), appended))

\* cappbot.py:723-730
CloseStep(m) ==
    IF m.error \/ m.changes = {} THEN m
    ELSE IF m.st.should_close_issue # False /\ m.issue.state # "closed"
    THEN PatchUnlessDry(m, [state |-> "closed"])
    ELSE m

\* The working state and the flags when the patches begin.
Reconciled(m) == RulesStep(CommentsStep(m))

\* The handler with the issue closed before the paper trail is posted
HandleChangesClosingFirst(m, appended) ==
    IF m.changes = {} THEN NoChanges(m)
    ELSE RecordIssue(
             PaperTrailStep(
                 CloseStep(
                 OpenStep(OrderStep(TitleStep(AssigneeStep(MilestoneStep(LabelsStep(
                     Reconciled(m)))))))),
                 appended))

\* The handler with the issue reopened after the paper trail is posted
HandleChangesOpeningLast(m, appended) ==
    IF m.changes = {} THEN NoChanges(m)
    ELSE RecordIssue(
             CloseStep(
             OpenStep(
             PaperTrailStep(
                 OrderStep(TitleStep(AssigneeStep(MilestoneStep(LabelsStep(
                     Reconciled(m)))))),
                 appended))))

\* handle_issue_changes from `changes = self.get_issue_changes(issue)` on
HandleChanges(m, appended) ==
    IF m.changes = {} THEN NoChanges(m)
    ELSE RecordIssue(
             CloseStep(
             PaperTrailStep(
                 OpenStep(OrderStep(TitleStep(AssigneeStep(MilestoneStep(LabelsStep(
                     Reconciled(m))))))),
                 appended)))

handle_issue_changes(m, appended) == HandleChanges(Begin(ForcePaperTrailIfSilent(m)), appended)

\* issue_working_state and the flags handle_issue_changes would reach for m
WorkingState(m) == Reconciled(Begin(ForcePaperTrailIfSilent(m))).st

(***************************************************************************)
(* Bounds of the model                                                     *)
(***************************************************************************)
MaxRuns == 2        \* invocations of the program
MaxQuietRuns == 3   \* invocations where no call failed, none was killed, nobody commented
MaxComments == 2    \* comments users write while the model runs
MaxEdits == 1       \* direct edits of an issue by a user
MaxFailures == 1    \* remote calls that raise
MaxKills == 1       \* invocations killed before they end
MaxEvents == 2      \* comments, edits, failures and kills together

(***************************************************************************)
(* The worlds the model starts from                                        *)
(***************************************************************************)
RepositoryLabels == {"#new", "#accepted", "#fixed", "#wont-fix", "#needs-info",
                     "#needs-test", "#acknowledged", "enhancement", "question", "bug"}

Collaborators == {"cappbot", "alice_tester"}

\* PERMISSIONS of the settings file: bob may alter labels, nothing else
ConfiguredPermissions == [u \in {"bob"} |-> {"labels"}]

\* a comment body of several lines
RECURSIVE Lines(_)
Lines(ls) == IF Len(ls) = 1 THEN ls[1] ELSE ls[1] \o <<"\n">> \o Lines(Tail(ls))

Plus(name) == <<"+">> \o Chars(name)
Minus(name) == <<"-">> \o Chars(name)

\* What users write in comments.
CommentBodies == {
    Plus("#fixed"),
    Minus("#fixed"),
    Plus("#wont-fix"),
    Plus("bug"),
    <<"+", "1">>,
    <<"-", "1">>,
    MilestonePrefix \o Chars("1.0"),
    <<"I see this too.">>
}

Commenters == {"alice_tester", "bob"}

\* Who writes what: alice_tester, a collaborator, writes any of the bodies; bob,
\* who may alter labels only, adds a label, tries to set a milestone, and votes.
UserComments ==
    {c \in [user : Commenters, body : CommentBodies] :
        \/ c.user = "alice_tester"
        \/ c.body \in {Plus("#fixed"), MilestonePrefix \o Chars("1.0"), <<"+", "1">>}}

TitleWording == <<"Crash on launch">>

RemoteIssue(state, title, labels, milestone, comments) ==
    [id |-> 1, number |-> 1, state |-> state, title |-> title, labels |-> labels,
     milestone |-> milestone, assignee |-> None, updated_at |-> 1, comments |-> comments]

\* A paper trail the bot left before the model starts.
OldPaperTrail == [id |-> 1, user |-> GITHUB_USER,
                  body |-> getPaperTrailMessage(None, None, <<"#new">>, NoneInt)]

InitialIssues == {
    RemoteIssue("open", TitleWording, <<>>, None, <<>>),
    RemoteIssue("open", TitleWording \o <<" ", "[", "+", "1", "]">>, <<"bug">>, None, <<>>),
    RemoteIssue("open", TitleWording, <<"#accepted", "#needs-info">>, "Someday", <<>>),
    RemoteIssue("open", TitleWording, <<"#new">>, None, <<OldPaperTrail>>),
    RemoteIssue("closed", TitleWording, <<"#fixed">>, None, <<>>)
}

Invocations == {
    [dry_run |-> FALSE, memorise_forgotten |-> FALSE, ignore |-> {}],
    [dry_run |-> TRUE, memorise_forgotten |-> FALSE, ignore |-> {}],
    [dry_run |-> FALSE, memorise_forgotten |-> TRUE, ignore |-> {}],
    [dry_run |-> FALSE, memorise_forgotten |-> FALSE, ignore |-> {1}]
}

EmptyDatabase == [first_run |-> NoneInt, issues |-> [k \in {} |-> None]]

\* issue_working_state and the flags before any issue was handled
NoWorkingState == [labels |-> <<>>, milestone |-> None, assignee |-> None,
                   should_open_issue |-> False, should_close_issue |-> False]

\* Before the first invocation: no process, hence no CappBot object; what is
\* known is the command line the installation invokes the program with.
NoBot(args) ==
    [dry_run |-> args.dry_run, memorise_forgotten |-> args.memorise_forgotten,
     ignore |-> args.ignore,
     known_labels |-> {}, known_milestones |-> {}, collaborator_logins |-> {},
     should_open_issue |-> False, should_close_issue |-> False]

\* Args(bot): the command line of the invocation that made the bot
Args(bot) == [dry_run |-> bot.dry_run, memorise_forgotten |-> bot.memorise_forgotten,
              ignore |-> bot.ignore]

\* history counts what happened (runs, comments, edits, failures, kills) and
\* remembers about the invocations: error (the current one raised), pure (no
\* user acted since the current one started), clean (the last one ended, saved,
\* raised nothing, and no user acted since it started), again (the current one
\* started when clean held), of the latest turn of each phase (prepared,
\* handled), and of the invocation that was killed (lost: which one, and the
\* calls it had made).
NoHistory == [runs |-> 0, comments |-> 0, edits |-> 0, failures |-> 0, kills |-> 0,
              error |-> FALSE, pure |-> FALSE, clean |-> FALSE, again |-> FALSE,
              prepared |-> [run |-> 0], handled |-> [run |-> 0],
              lost |-> [run |-> 0, calls |-> <<>>]]

DefaultSettings ==
    [NEW_ISSUE_DEFAULTS |-> DEFAULT_NEW_ISSUE_DEFAULTS,
     PERMISSIONS |-> ConfiguredPermissions,
     IGNORE_CLOSED_ISSUES_NOT_UPDATED_SINCE_FIRST_RUN |-> TRUE]

Repository(issue) ==
    [issues |-> <<issue>>,
     labels |-> RepositoryLabels,
     milestones |-> <<"Someday", "1.0">>,
     collaborators |-> Collaborators,
     now |-> 1]

Init ==
    /\ settings = DefaultSettings
    /\ \E args \in Invocations : self = NoBot(args)
    /\ \E issue \in InitialIssues : github = Repository(issue)
    /\ issues = <<>>
    /\ database = EmptyDatabase
    /\ disk = EmptyDatabase
    /\ pc = "idle"
    /\ cursor = 0
    /\ calls = <<>>
    /\ history = NoHistory
    /\ fn = <<>>

(***************************************************************************)
(* The invocation (src/main/cappbot.py:735-821)                            *)
(***************************************************************************)
Machine(issue, fail, phase) ==
    [issue |-> issue, db |-> database, gh |-> github, calls |-> <<>>, error |-> FALSE,
     fail |-> fail, phase |-> phase,
     changes |-> {}, original_labels |-> <<>>, did_change_votes |-> FALSE,
     st |-> [NoWorkingState EXCEPT !.should_open_issue = self.should_open_issue,
                                   !.should_close_issue = self.should_close_issue]]

\* The call that is to raise is one the handler came to.
DidFail(m, fail) == fail = 0 \/ (m.error /\ fail = Len(m.calls))

\* ensure_referenced_labels_exist: the default labels the repository lacks
MissingDefaultLabels(gh, defs) ==
    SelectSeq(IF defs.labels # NoneInt THEN defs.labels[1] ELSE <<>>,
              LAMBDA label : label \notin gh.labels)

\* The calls that create them
CreateLabelCalls(missing) ==
    [n \in DOMAIN missing |->
        [op |-> "create_label", name |-> missing[n], phase |-> 0, ok |-> TRUE]]

\* The repository after ensure_referenced_labels_exist
WithLabels(gh, missing) ==
    [gh EXCEPT !.labels = @ \cup Range(missing), !.now = @ + Len(missing)]

\* The CappBot object of an invocation, once run() fetched what it knows
Bot(args, gh) ==
    [dry_run |-> args.dry_run,
     memorise_forgotten |-> args.memorise_forgotten,
     ignore |-> args.ignore,
     known_labels |-> gh.labels,
     known_milestones |-> Range(gh.milestones),
     collaborator_logins |-> gh.collaborators,
     should_open_issue |-> False,
     should_close_issue |-> False]

\* for login in self.collaborator_logins: PERMISSIONS[login] = [all three]
WithCollaborators(permissions, collaborators) ==
    [u \in DOMAIN permissions \cup collaborators |->
        IF u \in collaborators THEN ALL_PERMISSIONS ELSE permissions[u]]

\* The invocations the model follows: MaxRuns, and up to MaxQuietRuns as long as
\* no call has failed, no invocation was killed and nobody has commented.
RunsAllowed ==
    IF history.failures = 0 /\ history.kills = 0 /\ history.comments = 0
    THEN MaxQuietRuns ELSE MaxRuns

\* __main__ up to the issue loops of run(): load the database, write it back,
\* create the referenced labels, fetch labels, milestones, collaborators, issues.
StartRun ==
    /\ pc = "idle"
    /\ history.runs < RunsAllowed
    /\ \E missing \in {MissingDefaultLabels(github, settings.NEW_ISSUE_DEFAULTS)} :
          /\ github' = WithLabels(github, missing)
          /\ calls' = CreateLabelCalls(missing)
    /\ self' = Bot(Args(self), github')
    /\ settings' = [settings EXCEPT !.PERMISSIONS = WithCollaborators(@, github'.collaborators)]
    /\ issues' = by_repository_all(github')
    /\ pc' = IF issues' = <<>> THEN "finally" ELSE "phase1"
    /\ database' = disk
    /\ disk' = IF ~self.dry_run THEN database' ELSE disk
    /\ cursor' = 1
    /\ history' = [history EXCEPT !.runs = @ + 1, !.error = FALSE, !.pure = TRUE,
                                  !.clean = FALSE,
                                  !.again = history.clean]
    /\ UNCHANGED fn

\* What has disturbed the program so far
Events == history.comments + history.edits + history.failures + history.kills

\* The calls of a handler that the model may make raise: none (0) or any one of
\* the calls the handler comes to.
FailurePoints(m) ==
    IF history.failures < MaxFailures /\ Events < MaxEvents THEN 0..Len(m.calls) ELSE {0}

\* The client's post() may or may not append the comment to the local list.
AppendChoices(m) ==
    IF \E n \in DOMAIN m.calls : m.calls[n].op = "post" THEN BOOLEAN ELSE {FALSE}

\* The phase 1 loop without its test of the ignore list
Phase1WithoutIgnore(issue, fail) == check_prepare_issue(Machine(issue, fail, 1))

\* for issue in issues: ... self.check_prepare_issue(issue)
Phase1(issue, fail) ==
    IF issue.number \in self.ignore THEN Machine(issue, fail, 1)
    ELSE check_prepare_issue(Machine(issue, fail, 1))

\* for issue in issues: ... self.handle_issue_changes(issue)
Phase2(issue, fail, appended) ==
    IF issue.number \in self.ignore \/ issue._should_ignore THEN Machine(issue, fail, 2)
    ELSE handle_issue_changes(Machine(issue, fail, 2), appended)

\* What the model remembers of a turn of phase 1: the issue as fetched, the
\* remote issue then, whether the database knew it and its record if so, and what
\* check_prepare_issue left (the issue, first_run, the record, the calls).
Prepared1(m0, m) ==
    [run |-> history.runs, issue |-> m.issue.id, before |-> m0.issue,
     remote_before |-> m0.gh.issues[m0.issue.id],
     seen |-> has_seen_issue(m0.db, m0.issue),
     record_before |-> IF has_seen_issue(m0.db, m0.issue) THEN <<m0.db.issues[m0.issue.id]>>
                       ELSE <<>>,
     after |-> m.issue,
     first_run |-> m.db.first_run,
     record |-> IF has_seen_issue(m.db, m.issue) THEN <<m.db.issues[m.issue.id]>> ELSE <<>>,
     calls |-> m.calls, error |-> m.error]

\* What the model remembers of a turn of phase 2: the issue, its record and
\* the remote issue before, the comments the handler took for new, the working
\* state, flags and changes it ended with, its calls, and the issue and its
\* record after.
Handled(m0, m) ==
    [run |-> history.runs, issue |-> m.issue.id, before |-> m0.issue,
     record_before |-> m0.db.issues[m0.issue.id],
     remote_before |-> m0.gh.issues[m0.issue.id],
     new_comments |-> IF "comments" \in get_issue_changes(m0.db, m0.gh, m0.issue)
                      THEN get_new_comments(m0.db.issues[m0.issue.id], m0.issue._comments)
                      ELSE <<>>,
     st |-> m.st, changes |-> m.changes, did_change_votes |-> m.did_change_votes,
     after |-> m.issue, record |-> m.db.issues[m.issue.id],
     calls |-> m.calls, error |-> m.error]

\* What a turn of either loop leaves behind
Turn(m, next_pc) ==
    /\ issues' = [issues EXCEPT ![cursor] = m.issue]
    /\ database' = m.db
    /\ github' = m.gh
    /\ calls' = calls \o m.calls
    /\ pc' = IF m.error THEN "finally"
             ELSE IF cursor = Len(issues) THEN next_pc ELSE pc
    /\ cursor' = IF m.error THEN cursor
                 ELSE IF cursor = Len(issues) THEN 1 ELSE cursor + 1

\* One turn of the phase 1 loop of run()
CheckPrepareIssue ==
    /\ pc = "phase1"
    /\ \E m0 \in {Phase1(issues[cursor], 0)} :
       \E fail \in FailurePoints(m0) :
       \E m \in {IF fail = 0 THEN m0 ELSE Phase1(issues[cursor], fail)} :
          /\ DidFail(m, fail)
          /\ Turn(m, "phase2")
          /\ history' = [history EXCEPT !.error = m.error,
                                        !.failures = IF fail # 0 THEN @ + 1 ELSE @,
                                        !.prepared = Prepared1(Machine(issues[cursor], 0, 1), m)]
    /\ UNCHANGED <<settings, self, disk, fn>>

\* One turn of the phase 2 loop of run()
HandleIssueChanges ==
    /\ pc = "phase2"
    /\ \E m0 \in {Phase2(issues[cursor], 0, FALSE)} :
       \E fail \in FailurePoints(m0), appended \in AppendChoices(m0) :
       \E m \in {IF fail = 0 /\ ~appended THEN m0
                 ELSE Phase2(issues[cursor], fail, appended)} :
          /\ DidFail(m, fail)
          /\ Turn(m, "finally")
          /\ history' = [history EXCEPT
                            !.error = m.error,
                            !.failures = IF fail # 0 THEN @ + 1 ELSE @,
                            !.handled = IF issues[cursor].number \in self.ignore
                                           \/ issues[cursor]._should_ignore THEN @
                                        ELSE Handled(Machine(issues[cursor], 0, 2), m)]
          /\ self' = [self EXCEPT !.should_open_issue = m.st.should_open_issue,
                                  !.should_close_issue = m.st.should_close_issue]
    /\ UNCHANGED <<settings, disk, fn>>

\* The end of the process without save_database()
FinishRunWithoutSave ==
    /\ pc = "finally"
    /\ database' = disk
    /\ issues' = <<>>
    /\ pc' = "idle"
    /\ cursor' = 0
    /\ history' = [history EXCEPT !.clean = history.pure /\ ~history.error /\ ~self.dry_run,
                                  !.again = FALSE]
    /\ UNCHANGED <<settings, self, github, disk, calls, fn>>

\* The finally clause of __main__: save_database(), then the process ends.
FinishRun ==
    /\ pc = "finally"
    /\ disk' = IF ~self.dry_run THEN database ELSE disk
    /\ database' = disk'
    /\ issues' = <<>>
    /\ pc' = "idle"
    /\ cursor' = 0
    /\ history' = [history EXCEPT !.clean = history.pure /\ ~history.error /\ ~self.dry_run,
                                  !.again = FALSE]
    /\ UNCHANGED <<settings, self, github, calls, fn>>

\* The process is killed between two steps: nothing is saved.
Kill ==
    /\ pc \in {"phase1", "phase2", "finally"}
    /\ history.kills < MaxKills /\ Events < MaxEvents
    /\ database' = disk
    /\ issues' = <<>>
    /\ pc' = "idle"
    /\ cursor' = 0
    /\ history' = [history EXCEPT !.kills = @ + 1, !.clean = FALSE, !.again = FALSE,
                                  !.lost = [run |-> history.runs, calls |-> calls]]
    /\ UNCHANGED <<settings, self, github, disk, calls, fn>>

(***************************************************************************)
(* The users of the repository                                             *)
(***************************************************************************)
Touched == [history EXCEPT !.pure = FALSE, !.clean = FALSE, !.again = FALSE]

\* Users act between two invocations, or between the two phases of one; what a
\* user does after the last invocation of the model is seen by nobody.
UserMoment ==
    /\ Events < MaxEvents
    /\ \/ pc = "idle" /\ history.runs < MaxRuns
       \/ pc = "phase2"

UserComment(comment) ==
    /\ history.comments < MaxComments /\ UserMoment
    /\ \E n \in DOMAIN github.issues :
          github' = [github EXCEPT !.now = @ + 1,
                                   !.issues[n].updated_at = github.now + 1,
                                   !.issues[n].comments =
                                       Append(@, [id |-> github.now + 1,
                                                  user |-> comment.user,
                                                  body |-> comment.body])]
    /\ history' = [Touched EXCEPT !.comments = @ + 1]
    /\ UNCHANGED <<settings, self, issues, database, disk, pc, cursor, calls, fn>>

EditLabels == {"#fixed"}

\* A user adds or removes a label by hand; updated_at may or may not move.
UserLabel(label, bump) ==
    /\ history.edits < MaxEdits /\ UserMoment
    /\ \E n \in DOMAIN github.issues :
          github' = [github EXCEPT !.now = @ + 1,
                                   !.issues[n].updated_at = IF bump THEN github.now + 1 ELSE @,
                                   !.issues[n].labels =
                                       IF label \in Range(@) THEN ListRemove(@, label)
                                       ELSE Append(@, label)]
    /\ history' = [Touched EXCEPT !.edits = @ + 1]
    /\ UNCHANGED <<settings, self, issues, database, disk, pc, cursor, calls, fn>>

\* A user closes or reopens an issue by hand.
UserState ==
    /\ history.edits < MaxEdits /\ UserMoment
    /\ \E n \in DOMAIN github.issues :
          github' = [github EXCEPT !.now = @ + 1,
                                   !.issues[n].updated_at = github.now + 1,
                                   !.issues[n].state = IF @ = "open" THEN "closed" ELSE "open"]
    /\ history' = [Touched EXCEPT !.edits = @ + 1]
    /\ UNCHANGED <<settings, self, issues, database, disk, pc, cursor, calls, fn>>

Next ==
    \/ StartRun
    \/ CheckPrepareIssue
    \/ HandleIssueChanges
    \/ FinishRun
    \/ Kill
    \/ \E comment \in UserComments : UserComment(comment)
    \/ \E label \in EditLabels, bump \in BOOLEAN : UserLabel(label, bump)
    \/ UserState

Spec == Init /\ [][Next]_vars

(***************************************************************************)
(* The worlds of the test suite (src/cappbot_test.py) and their            *)
(* neighbours: one issue, the comments users left on it, the settings of   *)
(* the installation, and the invocations of the program on them.           *)
(***************************************************************************)
\* NEW_ISSUE_DEFAULTS as an installation may configure it: the shipped
\* defaults, nothing, all three, an empty label list with an assignee, and a
\* milestone the repository does not have yet.
ConfiguredDefaults == {
    DEFAULT_NEW_ISSUE_DEFAULTS,
    [labels |-> NoneInt, milestone |-> None, assignee |-> None],
    [labels |-> Some(<<"#new", "bug">>), milestone |-> "1.0", assignee |-> "alice_tester"],
    [labels |-> Some(<<>>), milestone |-> None, assignee |-> "alice_tester"],
    [labels |-> NoneInt, milestone |-> "2.0", assignee |-> None]
}

\* fake_comment(owner, body); the ids go up with the comments
FakeComments(written) ==
    [n \in DOMAIN written |-> [id |-> n, user |-> written[n].user, body |-> written[n].body]]

\* The comments of test_multiple_actions_by_comment_label
MultipleActionsComments == FakeComments(<<
    [user |-> "alice_tester",
     body |-> Lines(<< <<"Very enhancing.">>, <<>>, Plus("enhancement"), Plus("#needs-test") >>)],
    [user |-> "bob",
     body |-> Lines(<< Minus("enhancement"), <<>>, Minus("#needs-test"), Plus("#new"),
                       Chars("#acknowledged") >>)],
    [user |-> "alice_tester",
     body |-> Lines(<< <<"These aren't labels.">>, <<"+","#","h","e","l","l","o">>,
                       <<"-","b","a","l","l","o","o","n">> >>)],
    [user |-> "alice_tester",
     body |-> Lines(<< Minus("#acknowledged"), Plus("#needs-test") >>)]
>>)

\* The comment of test_action_by_comment_unauthorised
UnauthorisedComments == FakeComments(<<
    [user |-> "chuck",
     body |-> Lines(<< <<"I am Chuck and I accept this issue.">>, <<>>, Plus("#accepted") >>)]
>>)

\* Commands of each kind, alone and together
CommandBodies == {
    Plus("#accepted"),
    Minus("enhancement"),
    MilestonePrefix \o Chars("1.0"),
    AssigneePrefix \o Chars("alice_tester"),
    Lines(<< Plus("#accepted"), MilestonePrefix \o Chars("1.0"),
             AssigneePrefix \o Chars("alice_tester") >>)
}

\* alice_tester collaborates, bob may alter labels, chuck may do nothing.
TestUsers == {"alice_tester", "bob", "chuck"}

\* One comment with commands, or two by different users
CommandComments ==
    {FakeComments(<<c>>) : c \in [user : TestUsers, body : CommandBodies]}
    \cup {FakeComments(<<[user |-> "chuck", body |-> Plus("#accepted")], c>>) :
             c \in [user : {"alice_tester", "bob"},
                    body : {Minus("enhancement"), MilestonePrefix \o Chars("1.0")}]}

\* Commands with nothing after the equals sign, alone and together
ClearingBodies == {
    MilestonePrefix,
    AssigneePrefix,
    Lines(<< MilestonePrefix, AssigneePrefix >>)
}

\* One such comment, by a collaborator or by a user who may do nothing
ClearingComments ==
    {FakeComments(<<c>>) : c \in [user : {"alice_tester", "chuck"}, body : ClearingBodies]}

\* An issue with a milestone and an assignee, and such a comment on it
TriagedIssues ==
    {[RemoteIssue("open", TitleWording, <<"bug">>, "Someday", comments)
         EXCEPT !.assignee = "alice_tester"] : comments \in ClearingComments}

\* Comments that add and remove labels which close and reopen an issue
FlagComments == {
    FakeComments(<<[user |-> "alice_tester", body |-> Plus("#wont-fix")]>>),
    FakeComments(<<[user |-> "alice_tester", body |-> Minus("#fixed")]>>),
    FakeComments(<<[user |-> "alice_tester", body |-> Minus("#fixed")],
                   [user |-> "bob", body |-> Plus("#wont-fix")]>>),
    FakeComments(<<[user |-> "bob", body |-> Lines(<< Plus("#fixed"), Minus("#fixed") >>)]>>)
}

\* Open and closed issues with such comments
FlagIssues ==
    {RemoteIssue(state, TitleWording, labels, None, comments) :
        state \in {"open", "closed"},
        labels \in {<<"bug">>, <<"#fixed">>},
        comments \in FlagComments}

\* The issues of the fixtures: issue 8 of issues.json (nothing set), also
\* closed, and issue 7 (labelled enhancement and question)
TestIssues ==
    {RemoteIssue(state, TitleWording, <<>>, None, <<>>) : state \in {"open", "closed"}}
    \cup {RemoteIssue("open", TitleWording, <<>>, None, MultipleActionsComments),
          RemoteIssue("open", TitleWording, <<"enhancement", "question">>, None,
                      UnauthorisedComments)}
    \cup {RemoteIssue("open", TitleWording, <<"enhancement", "question">>, None, comments) :
             comments \in CommandComments}
    \cup TriagedIssues
    \cup FlagIssues

\* The repository with the issue, last touched when its last comment was written
TestRepository(issue) ==
    [Repository([issue EXCEPT !.updated_at = IF issue.comments = <<>> THEN 1
                                             ELSE Len(issue.comments)])
        EXCEPT !.now = IF issue.comments = <<>> THEN 1 ELSE Len(issue.comments)]

\* The database file before the first invocation: none, or one of an
\* installation that ran before the issue existed.
TestDatabases == {EmptyDatabase, [EmptyDatabase EXCEPT !.first_run = Some(0)]}

TestInvocations == {
    [dry_run |-> FALSE, memorise_forgotten |-> FALSE, ignore |-> {}],
    [dry_run |-> TRUE, memorise_forgotten |-> FALSE, ignore |-> {}]
}

\* The settings vary with the issues that have nothing set; the other issues
\* come with the settings of setUp.
TestWorlds ==
    {w \in [defaults : ConfiguredDefaults, issue : TestIssues, db : TestDatabases] :
        \/ w.issue.labels = <<>> /\ w.issue.comments = <<>>
        \/ w.defaults = DEFAULT_NEW_ISSUE_DEFAULTS /\ w.db = EmptyDatabase
        \/ w.defaults = DEFAULT_NEW_ISSUE_DEFAULTS /\ w.issue \in FlagIssues}

TestInit ==
    /\ \E w \in TestWorlds :
          /\ settings = [DefaultSettings EXCEPT !.NEW_ISSUE_DEFAULTS = w.defaults]
          /\ github = TestRepository(w.issue)
          /\ database = w.db
          /\ disk = w.db
    /\ \E args \in TestInvocations : self = NoBot(args)
    /\ issues = <<>>
    /\ pc = "idle"
    /\ cursor = 0
    /\ calls = <<>>
    /\ history = NoHistory
    /\ fn = <<>>

\* The program runs; nobody else acts.
TestNext ==
    \/ StartRun
    \/ CheckPrepareIssue
    \/ HandleIssueChanges
    \/ FinishRun

TestSpec == TestInit /\ [][TestNext]_vars

(***************************************************************************)
(* The functions on their own: fn holds the arguments of one call and,     *)
(* once the call is made, what it returned.                                *)
(***************************************************************************)
\* What commenters write about votes: a vote, a vote among blanks, prose, two
\* votes in one comment, nothing.
VoteBodies == {
    <<"+", "1">>,
    <<"-", "1">>,
    <<"+", "0">>,
    <<" ", "-", "1", " ">>,
    <<"I see this too.">>,
    Lines(<< <<"+", "1">>, <<"Or rather not.">>, <<"-", "1">> >>),
    <<>>
}

MaxVoteComments == 3

\* issue._comments: up to MaxVoteComments comments of two users
VoteComments ==
    UNION {[1..n -> [user : {"alice_tester", "bob"}, body : VoteBodies]] :
              n \in 0..MaxVoteComments}

\* record['votes'] before the call
StoredVotes == {NoneInt, Some(0), Some(1)}

\* The record of an issue with the tally votes
RecordWithVotes(votes) ==
    [id |-> 1, number |-> 1, comments_count |-> 0, milestone_number |-> NoneInt,
     assignee_id |-> NoneInt, labels |-> <<>>, updated_at |-> Some(1), votes |-> votes,
     latest_seen_comment_id |-> NoneInt]

TrailLabels == {"#new", "#acknowledged", "#needs-patch", "#ready-to-commit", "#fixed",
                "bug", "AppKit"}

MaxTrailLabels == 3

\* The label lists of a working state: no label twice
TrailLabelLists ==
    {labels \in UNION {[1..n -> TrailLabels] : n \in 0..MaxTrailLabels} :
        \A i, j \in DOMAIN labels : i # j => labels[i] # labels[j]}

TrailVotes == {NoneInt, Some(0), Some(1), Some(3), Some(-2)}

\* The labels the what's-next clause tells apart: final words, ready to
\* commit, needs with and without an explanation, and others
NextLabels == {"#fixed", "#wont-fix", "#ready-to-commit", "#needs-patch", "#needs-docs",
               "#needs-test", "#new", "bug"}

MaxNextLabels == 3

\* The label lists of a working state: no label twice
NextLabelLists ==
    {labels \in UNION {[1..n -> NextLabels] : n \in 0..MaxNextLabels} :
        \A i, j \in DOMAIN labels : i # j => labels[i] # labels[j]}

\* fn.out before the call; afterwards it holds the one value returned
NotCalled == <<>>

\* A comment of alice_tester with the given id
CommentWithId(id) == [id |-> id, user |-> "alice_tester", body |-> <<"I see this too.">>]

\* What an Issue object holds about comments: whether they were fetched, the
\* count the issue came with, and the list.  The client fetches nothing for a
\* count of zero, and the list ends with the newest comment.
FetchedComments == {
    [fetched |-> FALSE, comments |-> 0, _comments |-> <<>>],
    [fetched |-> FALSE, comments |-> 2, _comments |-> <<>>],
    [fetched |-> TRUE, comments |-> 0, _comments |-> <<>>],
    [fetched |-> TRUE, comments |-> 1, _comments |-> <<CommentWithId(2)>>],
    [fetched |-> TRUE, comments |-> 2, _comments |-> <<CommentWithId(2), CommentWithId(3)>>]
}

\* The labels of a record (sorted, as record_issue stores them) and of an
\* issue (in the order of the API)
RecordLabelLists == {<<>>, <<"#new">>, <<"#new", "bug">>}
IssueLabelLists == {<<>>, <<"#new">>, <<"bug">>, <<"bug", "#new">>}

\* The arguments of get_issue_changes: the fields of the record it reads and
\* those of the issue
ChangesInputs ==
    [op : {"get_issue_changes"},
     record_labels : RecordLabelLists, labels : IssueLabelLists,
     assignee_id : {NoneInt, Some(2)}, assignee : {None, "alice_tester", "aljungberg"},
     milestone_number : {NoneInt, Some(1)}, milestone : {None, "Someday", "1.0"},
     latest_seen_comment_id : {NoneInt, Some(2), Some(3)},
     about_comments : FetchedComments, _force_paper_trail : BOOLEAN,
     out : {NotCalled}]

\* The record of the call
ChangesRecord(args) ==
    [RecordWithVotes(NoneInt) EXCEPT !.labels = args.record_labels,
                                     !.assignee_id = args.assignee_id,
                                     !.milestone_number = args.milestone_number,
                                     !.latest_seen_comment_id = args.latest_seen_comment_id]

\* The Issue object of the call
ChangesIssue(args) ==
    [FetchIssue([RemoteIssue("open", TitleWording, args.labels, args.milestone, <<>>)
                    EXCEPT !.assignee = args.assignee])
        EXCEPT !.comments = args.about_comments.comments,
               !.has_comments = args.about_comments.fetched,
               !._comments = args.about_comments._comments,
               !._force_paper_trail = args._force_paper_trail]

MaxCommentId == 4
MaxFetched == 3

\* issue._comments as the API returns it: up to MaxFetched comments in
\* ascending order of id
AscendingComments ==
    {comments \in UNION {[1..n -> {CommentWithId(id) : id \in 1..MaxCommentId}] :
                            n \in 0..MaxFetched} :
        \A i, j \in DOMAIN comments : i < j => comments[i].id < comments[j].id}

\* The arguments of get_new_comments
NewCommentsInputs ==
    [op : {"get_new_comments"}, comments : AscendingComments,
     latest_seen_comment_id : {NoneInt} \cup {Some(id) : id \in 1..(MaxCommentId + 1)},
     out : {NotCalled}]

\* The labels of the calls of updated_state_per_label_removal_rules: state labels,
\* a trigger that is no state label, labels that triggers remove, and one label
\* outside the rules
RuleLabels == {"#new", "#accepted", "#fixed", "#duplicate", "#needs-info",
               "#ready-to-commit", "bug"}

MaxRuleLabels == 3

\* issue_working_state['labels']: up to MaxRuleLabels labels, none twice
RuleLabelLists ==
    {labels \in UNION {[1..n -> RuleLabels] : n \in 0..MaxRuleLabels} :
        \A i, j \in DOMAIN labels : i # j => labels[i] # labels[j]}

\* WHEN_LABEL_REMOVE_LABELS of a settings file whose rule removes a label of
\* OPEN_ISSUE_WHEN_CAPPBOT_REMOVES_LABEL
ReopeningRules == <<[trigger |-> "#needs-info", remove |-> <<"#duplicate", "#ready-to-commit">>]>>

\* The arguments of updated_state_per_label_removal_rules: the rules of the
\* settings, the working labels, and should_close_issue, which is False or the
\* label a command has just added (the last of the list)
RulesInputs ==
    {args \in [op : {"updated_state_per_label_removal_rules"},
               rules : {WHEN_LABEL_REMOVE_LABELS, ReopeningRules},
               labels : RuleLabelLists,
               should_close_issue : {False} \cup Range(CLOSE_ISSUE_WHEN_CAPPBOT_ADDS_LABEL),
               out : {NotCalled}] :
        args.should_close_issue # False
            => /\ args.labels # <<>>
               /\ args.labels[Len(args.labels)] = args.should_close_issue}

\* issue_working_state and the flags of the call
RulesState(args) ==
    [NoWorkingState EXCEPT !.labels = args.labels,
                           !.should_close_issue = args.should_close_issue]

\* Lines of comments with what each is: a vote, a command of one of the four
\* kinds with its argument, or no command.  Labels named '1' and '0' exist.
CommandLines == {
    [text |-> <<"+", "1">>, kind |-> "vote", arg |-> None],
    [text |-> <<"-", "1">>, kind |-> "vote", arg |-> None],
    [text |-> <<"+", "0">>, kind |-> "vote", arg |-> None],
    [text |-> <<"-", "0">>, kind |-> "vote", arg |-> None],
    [text |-> Plus("bug"), kind |-> "add", arg |-> "bug"],
    [text |-> Plus("#new"), kind |-> "add", arg |-> "#new"],
    [text |-> Chars("#new"), kind |-> "add", arg |-> "#new"],
    [text |-> Minus("bug"), kind |-> "remove", arg |-> "bug"],
    [text |-> Minus("#new"), kind |-> "remove", arg |-> "#new"],
    [text |-> MilestonePrefix \o Chars("1.0"), kind |-> "milestone", arg |-> "1.0"],
    [text |-> AssigneePrefix \o Chars("alice_tester"), kind |-> "assignee",
     arg |-> "alice_tester"],
    [text |-> Chars("bug"), kind |-> "none", arg |-> None],
    [text |-> <<"#">>, kind |-> "none", arg |-> None],
    [text |-> <<"+">>, kind |-> "none", arg |-> None],
    [text |-> <<"1">>, kind |-> "none", arg |-> None],
    [text |-> <<"+", "1", "!">>, kind |-> "none", arg |-> None],
    [text |-> Minus("bug") \o <<"=">>, kind |-> "none", arg |-> None],
    [text |-> <<"I see this too.">>, kind |-> "none", arg |-> None]
}

\* The labels the issue of a call carries
CommandLabelLists == {<<>>, <<"bug">>, <<"1", "bug">>, <<"#new", "0", "1">>}

\* The arguments of a call that interprets one comment of one line: the line,
\* whether blanks surround it, who wrote it, and the working state
LineInputs ==
    [op : {"interpret"}, line : CommandLines, padded : BOOLEAN,
     user : {"alice_tester", "chuck"}, labels : CommandLabelLists,
     milestone : {None, "Someday"}, assignee : {None, "aljungberg"},
     out : {NotCalled}]

\* The comment of the call
LineComment(args) ==
    [id |-> 2, user |-> args.user,
     body |-> IF args.padded THEN <<" ">> \o args.line.text \o <<" ", " ">>
              ELSE args.line.text]

\* issue_working_state of the call
LineState(args) ==
    [NoWorkingState EXCEPT !.labels = args.labels, !.milestone = args.milestone,
                           !.assignee = args.assignee]

FnInputs ==
    [op : {"recount_votes"}, votes : StoredVotes, comments : VoteComments, out : {NotCalled}]
    \cup [op : {"getPaperTrailMessage"}, assignee : {None, "aljungberg"},
          milestone : {None, "Someday"}, labels : TrailLabelLists, votes : TrailVotes,
          out : {NotCalled}]
    \cup [op : {"getWhatsNextMessage"}, assignee : {None, "aljungberg"},
          milestone : {None, "Someday"}, labels : NextLabelLists, out : {NotCalled}]
    \cup ChangesInputs
    \cup NewCommentsInputs
    \cup RulesInputs
    \cup LineInputs

FnInit ==
    /\ settings = [DefaultSettings EXCEPT !.PERMISSIONS = WithCollaborators(@, Collaborators)]
    /\ \E args \in TestInvocations :
          /\ ~args.dry_run
          /\ self = [NoBot(args) EXCEPT
                        !.known_labels = RepositoryLabels \cup RuleLabels \cup {"1", "0"},
                        !.known_milestones = {"Someday", "1.0"},
                        !.collaborator_logins = Collaborators \cup {"aljungberg"}]
    /\ github = TestRepository(RemoteIssue("open", TitleWording, <<>>, None, <<>>))
    /\ issues = <<>>
    /\ database = EmptyDatabase
    /\ disk = EmptyDatabase
    /\ pc = "idle"
    /\ cursor = 0
    /\ calls = <<>>
    /\ history = NoHistory
    /\ fn \in FnInputs

\* self.recount_votes(issue)
CallRecountVotes ==
    /\ fn.op = "recount_votes"
    /\ fn.out = NotCalled
    /\ fn' = [fn EXCEPT !.out = <<recount_votes(RecordWithVotes(fn.votes), fn.comments)>>]
    /\ UNCHANGED <<settings, self, github, issues, database, disk, pc, cursor, calls, history>>

\* settings.getPaperTrailMessage(assignee, milestone, labels, votes)
CallGetPaperTrailMessage ==
    /\ fn.op = "getPaperTrailMessage"
    /\ fn.out = NotCalled
    /\ fn' = [fn EXCEPT !.out = <<getPaperTrailMessage(fn.assignee, fn.milestone, fn.labels,
                                                       fn.votes)>>]
    /\ UNCHANGED <<settings, self, github, issues, database, disk, pc, cursor, calls, history>>

\* settings.getWhatsNextMessage(assignee, milestone, labels)
CallGetWhatsNextMessage ==
    /\ fn.op = "getWhatsNextMessage"
    /\ fn.out = NotCalled
    /\ fn' = [fn EXCEPT !.out = <<getWhatsNextMessage(fn.assignee, fn.milestone, fn.labels)>>]
    /\ UNCHANGED <<settings, self, github, issues, database, disk, pc, cursor, calls, history>>

\* self.get_issue_changes(issue)
CallGetIssueChanges ==
    /\ fn.op = "get_issue_changes"
    /\ fn.out = NotCalled
    /\ fn' = [fn EXCEPT !.out = <<get_issue_changes(
                                      WithRecord(EmptyDatabase, 1, ChangesRecord(fn)),
                                      github, ChangesIssue(fn))>>]
    /\ UNCHANGED <<settings, self, github, issues, database, disk, pc, cursor, calls, history>>

\* self.get_new_comments(issue)
CallGetNewComments ==
    /\ fn.op = "get_new_comments"
    /\ fn.out = NotCalled
    /\ fn' = [fn EXCEPT !.out = <<get_new_comments(
                                      [RecordWithVotes(NoneInt) EXCEPT
                                          !.latest_seen_comment_id = fn.latest_seen_comment_id],
                                      fn.comments)>>]
    /\ UNCHANGED <<settings, self, github, issues, database, disk, pc, cursor, calls, history>>

\* self.updated_state_per_label_removal_rules(issue, issue_working_state) under
\* the WHEN_LABEL_REMOVE_LABELS of the call
CallUpdatedStatePerLabelRemovalRules ==
    /\ fn.op = "updated_state_per_label_removal_rules"
    /\ fn.out = NotCalled
    /\ fn' = [fn EXCEPT !.out = <<RemoveConflicting(CascadeRemovals(fn.rules, RulesState(fn)))>>]
    /\ UNCHANGED <<settings, self, github, issues, database, disk, pc, cursor, calls, history>>

\* The body of the loop over new_comments for the comment of the call
CallInterpretComment ==
    /\ fn.op = "interpret"
    /\ fn.out = NotCalled
    /\ fn' = [fn EXCEPT !.out = <<InterpretComment(LineComment(fn), LineState(fn))>>]
    /\ UNCHANGED <<settings, self, github, issues, database, disk, pc, cursor, calls, history>>

FnNext ==
    \/ CallRecountVotes
    \/ CallGetPaperTrailMessage
    \/ CallGetWhatsNextMessage
    \/ CallGetIssueChanges
    \/ CallGetNewComments
    \/ CallUpdatedStatePerLabelRemovalRules
    \/ CallInterpretComment

FnSpec == FnInit /\ [][FnNext]_vars

(***************************************************************************)
(* __main__ step by step (src/main/cappbot.py:786-821): the database file  *)
(* is loaded, saved at once, run() is called, and the finally clause saves *)
(* again.  Here calls also lists the steps of save_database, and pc is     *)
(* loaded after the load, main once the first save is through, and blocked *)
(* when a save left NEW_DATABASE behind.                                   *)
(***************************************************************************)
\* The steps of save_database outside dry-run mode: open NEW_DATABASE, dump
\* the database into it, move it onto DATABASE.  Step number `raising` raises
\* (0: none does); `phase` is 0 for the early save, 3 for the last one.
SaveCalls(raising, phase) ==
    LET steps == <<"open", "dump", "move">>
    IN  [n \in 1..(IF raising = 0 THEN 3 ELSE raising) |->
            [op |-> steps[n], phase |-> phase, ok |-> n # raising]]

\* What the model lets a save do: succeed, or raise at one of its steps
SaveOutcomes == IF self.dry_run THEN {0} ELSE 0..3

\* save_database() does nothing in dry-run mode
Saving(raising, phase) == IF self.dry_run THEN <<>> ELSE SaveCalls(raising, phase)

\* The file after save_database()
Saved(raising) == IF ~self.dry_run /\ raising = 0 THEN database ELSE disk

\* Where the process is after save_database(): a save that raised after it
\* opened NEW_DATABASE leaves that file behind.
AfterSave(raising, next_pc) ==
    IF raising = 0 THEN next_pc ELSE IF raising = 1 THEN "idle" ELSE "blocked"

\* save_database() without its write
SaveDatabaseSkipped ==
    /\ pc = "loaded"
    /\ pc' = "main"
    /\ UNCHANGED <<settings, self, github, issues, database, disk, cursor, calls, history, fn>>

\* if os.path.exists(DATABASE): database = json.load(f) else: database = {}
LoadDatabase ==
    /\ pc = "idle"
    /\ history.runs < RunsAllowed
    /\ database' = disk
    /\ calls' = <<>>
    /\ pc' = "loaded"
    /\ history' = [history EXCEPT !.runs = @ + 1, !.error = FALSE, !.pure = TRUE,
                                  !.clean = FALSE,
                                  !.again = history.clean]
    /\ UNCHANGED <<settings, self, github, issues, disk, cursor, fn>>

\* if os.path.exists(NEW_DATABASE): raise
RefuseToStart ==
    /\ pc = "blocked"
    /\ history.runs < RunsAllowed
    /\ calls' = <<>>
    /\ history' = [history EXCEPT !.runs = @ + 1, !.error = TRUE, !.clean = FALSE,
                                  !.again = FALSE]
    /\ UNCHANGED <<settings, self, github, issues, database, disk, pc, cursor, fn>>

\* The save_database() that comes before the bot is made
SaveDatabaseEarly ==
    /\ pc = "loaded"
    /\ \E raising \in SaveOutcomes :
          /\ calls' = Saving(raising, 0)
          /\ disk' = Saved(raising)
          /\ pc' = AfterSave(raising, "main")
          /\ history' = [history EXCEPT !.error = raising # 0]
    /\ UNCHANGED <<settings, self, github, issues, database, cursor, fn>>

\* run() up to its issue loops
BeginRun ==
    /\ pc = "main"
    /\ \E missing \in {MissingDefaultLabels(github, settings.NEW_ISSUE_DEFAULTS)} :
          /\ github' = WithLabels(github, missing)
          /\ calls' = calls \o CreateLabelCalls(missing)
    /\ self' = Bot(Args(self), github')
    /\ settings' = [settings EXCEPT !.PERMISSIONS = WithCollaborators(@, github'.collaborators)]
    /\ issues' = by_repository_all(github')
    /\ pc' = IF issues' = <<>> THEN "finally" ELSE "phase1"
    /\ cursor' = 1
    /\ UNCHANGED <<database, disk, history, fn>>

\* finally: save_database(), and the process ends
SaveDatabaseFinally ==
    /\ pc = "finally"
    /\ \E raising \in SaveOutcomes :
          /\ calls' = calls \o Saving(raising, 3)
          /\ disk' = Saved(raising)
          /\ pc' = AfterSave(raising, "idle")
    /\ database' = disk'
    /\ issues' = <<>>
    /\ cursor' = 0
    /\ history' = [history EXCEPT !.clean = FALSE, !.again = FALSE]
    /\ UNCHANGED <<settings, self, github, fn>>

MainNext ==
    \/ LoadDatabase
    \/ RefuseToStart
    \/ SaveDatabaseEarly
    \/ BeginRun
    \/ CheckPrepareIssue
    \/ HandleIssueChanges
    \/ SaveDatabaseFinally

MainSpec == TestInit /\ [][MainNext]_vars

(***************************************************************************)
(* Properties of the invocations, stated on the latest turn of phase 2     *)
(* (history.handled), which every turn of the model becomes in its time.   *)
(***************************************************************************)
\* The current invocation has handled an issue in phase 2.
InPass == history.runs > 0 /\ history.handled.run = history.runs

\* The positions in a list of calls of the patches that carry the key
PatchesOf(cs, key) == {n \in DOMAIN cs : cs[n].op = "patch" /\ key \in DOMAIN cs[n].kwargs}

\* The positions of the patches that set the issue's state to `state`
StatePatches(cs, state) == {n \in PatchesOf(cs, "state") : cs[n].kwargs.state = state}

\* The positions of the comments posted
Posts(cs) == {n \in DOMAIN cs : cs[n].op = "post"}

\* The calls that change an issue or comment on one
IssueCalls(cs) == {n \in DOMAIN cs : cs[n].op \in {"patch", "post"}}

\* C1: idempotence of run().  An invocation that starts right after a non-dry
\* invocation that ended without error, with nothing changed remotely by
\* anyone else since that one started, issues no issue patch and posts no
\* comment, whatever the issue.
Idempotence == history.again => IssueCalls(calls) = {}

\* The second of two such invocations has been through both phases, after a
\* first one that left a paper trail on the issue.
IdempotenceWitness ==
    /\ history.again
    /\ pc = "finally"
    /\ InPass
    /\ \E n \in DOMAIN github.issues[1].comments :
          /\ github.issues[1].comments[n].user = GITHUB_USER
          /\ github.issues[1].comments[n].id > 1

\* C5: close ordering.  In every pass a state=closed patch is the last remote
\* operation and comes directly after the paper-trail comment of that pass,
\* which was posted; every labels patch of the pass comes before the post; and
\* outside dry-run mode a pass that scheduled a close for an issue that is not
\* closed, and that has changes to report and meets no error, ends with the
\* post and then the close.
CloseOrdering ==
    InPass =>
        /\ \A k \in StatePatches(history.handled.calls, "closed") :
              /\ k = Len(history.handled.calls)
              /\ k > 1
              /\ history.handled.calls[k - 1].op = "post"
              /\ history.handled.calls[k - 1].ok
        /\ \A i \in PatchesOf(history.handled.calls, "labels"),
              j \in Posts(history.handled.calls) : i < j
        /\ (/\ ~self.dry_run
            /\ ~history.handled.error
            /\ history.handled.changes # {}
            /\ history.handled.st.should_close_issue # False
            /\ history.handled.before.state # "closed"
            /\ history.handled.remote_before.state # "closed")
           => /\ StatePatches(history.handled.calls, "closed") # {}
              /\ Posts(history.handled.calls) # {}

\* A pass that patched the labels, posted the paper trail and closed the issue
CloseOrderingWitness ==
    /\ InPass
    /\ ~history.handled.error
    /\ \E i \in PatchesOf(history.handled.calls, "labels"),
          j \in Posts(history.handled.calls),
          k \in StatePatches(history.handled.calls, "closed") : i < j /\ j < k

\* The pass removed a reopen-set label that the closed issue carried, and ended
\* with the reopening scheduled.
RemovedReopenLabel ==
    /\ history.handled.st.should_open_issue # False
    /\ history.handled.st.should_open_issue \in Range(history.handled.before.labels)
    /\ history.handled.st.should_open_issue \notin Range(history.handled.st.labels)
    /\ history.handled.before.state = "closed"
    /\ history.handled.remote_before.state = "closed"

\* C6: reopen ordering.  In every pass a state=open patch comes after every
\* labels patch and before the paper-trail comment; and outside dry-run mode a
\* pass without error in which a reopen-set label carried by a closed issue was
\* removed, with no close scheduled after it, issues a labels patch, then the
\* state=open patch, then the comment.
ReopenOrdering ==
    InPass =>
        /\ \A k \in StatePatches(history.handled.calls, "open") :
              /\ \A i \in PatchesOf(history.handled.calls, "labels") : i < k
              /\ \A j \in Posts(history.handled.calls) : k < j
        /\ (~self.dry_run /\ ~history.handled.error /\ RemovedReopenLabel)
           => \E i \in PatchesOf(history.handled.calls, "labels"),
                 k \in StatePatches(history.handled.calls, "open"),
                 j \in Posts(history.handled.calls) : i < k /\ k < j

\* A pass that removed #fixed from a closed issue because of a comment
ReopenOrderingWitness ==
    /\ InPass
    /\ ~self.dry_run
    /\ ~history.handled.error
    /\ RemovedReopenLabel
    /\ history.handled.new_comments # <<>>
    /\ history.handled.after.state = "open"

\* The lines of a comment that are commands to add a label
AddLines(comment) ==
    {line \in Range(StrippedLines(comment.body)) : ~VOTE_REGEX(line) /\ ADD_LABEL_REGEX(line)}

\* The close-set labels that the comment adds, its author being allowed to
CloseLabelsAddedBy(comment) ==
    IF ~user_may_alter_labels(comment.user) THEN {}
    ELSE {get_label_by_name(Lower(AddLabelGroup(line))) : line \in AddLines(comment)}
         \cap Range(CLOSE_ISSUE_WHEN_CAPPBOT_ADDS_LABEL)

\* The close-set labels added by the new comments of the pass that are in its
\* final working label set
CloseLabelsAdded ==
    {label \in UNION {CloseLabelsAddedBy(history.handled.new_comments[n]) :
                         n \in DOMAIN history.handled.new_comments} :
        label \in Range(history.handled.st.labels)}

\* C7: adding a close-set label closes the issue.  Outside dry-run mode, a pass
\* without error in which an authorized new comment added a label of
\* CLOSE_ISSUE_WHEN_CAPPBOT_ADDS_LABEL that is in the final working label set
\* ends with the issue closed: it issued the state=closed patch if the issue
\* was open, and no state=open patch.
CloseOnAddedLabel ==
    (InPass /\ ~self.dry_run /\ ~history.handled.error /\ CloseLabelsAdded # {})
    => /\ history.handled.remote_before.state = "open"
            => StatePatches(history.handled.calls, "closed") # {}
       /\ StatePatches(history.handled.calls, "open") = {}
       /\ history.handled.after.state = "closed"

\* title ends with the suffix
EndsWith(title, suffix) ==
    /\ Len(title) >= Len(suffix)
    /\ SubSeq(title, Len(title) - Len(suffix) + 1, Len(title)) = suffix

\* The title carries the suffix of the tally n and no other before it.
CarriesTally(title, n) ==
    /\ EndsWith(title, <<" ", "[">> \o FormatPlusD(n) \o <<"]">>)
    /\ TitleVoteMatchLen(SubSeq(title, 1, Len(title) - 3 - Len(FormatPlusD(n)))) = 0

\* C9: the title's vote suffix follows the stored tally.  Between invocations,
\* the title of an issue whose saved snapshot holds a nonzero tally carries the
\* suffix of that tally, and only that one.
TitleCarriesStoredTally ==
    pc = "idle" =>
        \A id \in DOMAIN disk.issues :
            (disk.issues[id].votes # NoneInt /\ disk.issues[id].votes # Some(0))
            => CarriesTally(github.issues[id].title, disk.issues[id].votes[1])

(***************************************************************************)
(* Properties of the handlers on the worlds of the test suite, stated on   *)
(* the latest turn of phase 1 (history.prepared) and of phase 2            *)
(* (history.handled).                                                      *)
(***************************************************************************)
\* The latest turn of phase 1 met an issue the database did not know, with no
\* label, milestone or assignee and no comment of the bot.
NeverSeenNewIssue ==
    /\ history.prepared.run > 0
    /\ ~history.prepared.seen
    /\ history.prepared.before.labels = <<>>
    /\ history.prepared.before.milestone = None
    /\ history.prepared.before.assignee = None
    /\ \A n \in DOMAIN history.prepared.remote_before.comments :
          history.prepared.remote_before.comments[n].user # GITHUB_USER

\* The issue was closed and last updated before the first run of the bot, and
\* the installation ignores such issues.
SkippedAsLongClosed ==
    /\ settings.IGNORE_CLOSED_ISSUES_NOT_UPDATED_SINCE_FIRST_RUN
    /\ history.prepared.before.state = "closed"
    /\ history.prepared.first_run # NoneInt
    /\ history.prepared.before.updated_at < history.prepared.first_run[1]

\* The defaults the installation configures
ConfiguredKeys ==
    {key \in {"labels", "milestone", "assignee"} :
        \/ key = "labels" /\ settings.NEW_ISSUE_DEFAULTS.labels # NoneInt
        \/ key = "milestone" /\ settings.NEW_ISSUE_DEFAULTS.milestone # None
        \/ key = "assignee" /\ settings.NEW_ISSUE_DEFAULTS.assignee # None}

\* The patch kwargs carry exactly the configured defaults
CarriesDefaults(kwargs) ==
    /\ DOMAIN kwargs = ConfiguredKeys
    /\ "labels" \in ConfiguredKeys => kwargs.labels = settings.NEW_ISSUE_DEFAULTS.labels[1]
    /\ "milestone" \in ConfiguredKeys
       => kwargs.milestone = Some(MilestoneNumber(github, settings.NEW_ISSUE_DEFAULTS.milestone))
    /\ "assignee" \in ConfiguredKeys => kwargs.assignee = settings.NEW_ISSUE_DEFAULTS.assignee

\* The snapshot holds the configured defaults and nothing where none is
\* configured
RecordsDefaults(record) ==
    /\ Range(record.labels)
       = (IF "labels" \in ConfiguredKeys THEN Range(settings.NEW_ISSUE_DEFAULTS.labels[1]) ELSE {})
    /\ Len(record.labels) = Cardinality(Range(record.labels))
    /\ record.milestone_number
       = (IF "milestone" \in ConfiguredKeys
          THEN Some(MilestoneNumber(github, settings.NEW_ISSUE_DEFAULTS.milestone))
          ELSE NoneInt)
    /\ record.assignee_id
       = (IF "assignee" \in ConfiguredKeys
          THEN Some(UserId(settings.NEW_ISSUE_DEFAULTS.assignee))
          ELSE NoneInt)

\* The turn issued one patch with the configured defaults, none if nothing is
\* configured, and recorded a snapshot that holds them.
InstalledDefaults ==
    /\ IF ConfiguredKeys = {}
       THEN \A n \in DOMAIN history.prepared.calls : history.prepared.calls[n].op # "patch"
       ELSE \E n \in DOMAIN history.prepared.calls :
               /\ \A k \in DOMAIN history.prepared.calls :
                     history.prepared.calls[k].op = "patch" <=> k = n
               /\ history.prepared.calls[n].ok
               /\ CarriesDefaults(history.prepared.calls[n].kwargs)
    /\ history.prepared.record # <<>>
    /\ RecordsDefaults(history.prepared.record[1])

\* The original statement of C2: outside dry-run mode every turn of phase 1
\* without error on a never-seen issue with nothing set and no bot comment
\* patches the configured defaults in one patch and records them.
DefaultsInstalled ==
    (NeverSeenNewIssue /\ ~self.dry_run /\ ~history.prepared.error) => InstalledDefaults

\* C2: defaults for new issues.  Outside dry-run mode, a turn of phase 1
\* without error on a never-seen issue with no labels, no milestone, no
\* assignee and no bot comment, which is not skipped as closed and not updated
\* since the first run, issues one patch carrying exactly the configured
\* default labels, the default milestone's number and the default assignee
\* (each only if configured), and the snapshot recorded right after has labels,
\* milestone and assignee equal to those defaults.  A never-seen issue that is
\* skipped as closed and not updated since the first run is neither patched
\* nor recorded.
DefaultsInstalledUnlessLongClosed ==
    /\ (NeverSeenNewIssue /\ ~self.dry_run /\ ~history.prepared.error /\ ~SkippedAsLongClosed)
       => InstalledDefaults
    /\ (NeverSeenNewIssue /\ SkippedAsLongClosed)
       => history.prepared.calls = <<>> /\ history.prepared.record = <<>>

\* A never-seen open issue with nothing set was given labels, a milestone and
\* an assignee in one patch.
DefaultsInstalledWitness ==
    /\ NeverSeenNewIssue
    /\ ~self.dry_run
    /\ ~history.prepared.error
    /\ ~SkippedAsLongClosed
    /\ ConfiguredKeys = {"labels", "milestone", "assignee"}
    /\ \E n \in DOMAIN history.prepared.calls : history.prepared.calls[n].op = "patch"
    /\ history.prepared.after.labels # <<>>

\* issue_working_state as handle_issue_changes sets it out from the issue
StartingState(issue) ==
    [labels |-> issue.labels, milestone |-> issue.milestone, assignee |-> issue.assignee,
     should_open_issue |-> False, should_close_issue |-> False]

\* The lines of the comment, each with its comment
CommandsOf(comment) ==
    [i \in DOMAIN StrippedLines(comment.body) |->
        [comment |-> comment, line |-> StrippedLines(comment.body)[i]]]

RECURSIVE CommandsIn(_)
\* The lines of the comments in comment order and line order
CommandsIn(comments) ==
    IF comments = <<>> THEN <<>>
    ELSE CommandsOf(Head(comments)) \o CommandsIn(Tail(comments))

RECURSIVE AppliedInOrder(_, _)
\* The working state after the commands, one after the other
AppliedInOrder(commands, st) ==
    IF commands = <<>> THEN st
    ELSE CHOOSE last \in {AppliedInOrder(rest, next) :
                             rest \in {Tail(commands)},
                             next \in {InterpretLine(Head(commands).line,
                                                     Head(commands).comment, st)}} : TRUE

\* A pass over the comments of test_multiple_actions_by_comment_label on a new
\* issue that phase 1 gave the label #new
MultipleActions ==
    /\ InPass
    /\ ~history.handled.error
    /\ history.handled.new_comments = MultipleActionsComments
    /\ history.handled.before.labels = <<"#new">>

\* C3: multi-comment command interpretation.  The working state a pass ends
\* with is the one reached by applying the lines of all new comments, in
\* comment order and line order, to the one state set out from the issue, and
\* the removal rules once afterwards; it holds no label the repository does
\* not know.  On a new issue given the default label #new, the comments of the
\* test (alice: +enhancement, +#needs-test; bob: -enhancement, -#needs-test,
\* +#new, #acknowledged; alice: +#hello, -balloon with neither label existing;
\* alice: -#acknowledged, +#needs-test) yield the labels #needs-test and #new,
\* patched in a single labels patch.
CommandsInOrder ==
    /\ (InPass /\ history.handled.new_comments # <<>>)
       => /\ history.handled.st
             = updated_state_per_label_removal_rules(
                   AppliedInOrder(CommandsIn(history.handled.new_comments),
                                  StartingState(history.handled.before)))
          /\ Range(history.handled.st.labels) \subseteq self.known_labels
    /\ MultipleActions
       => /\ Range(history.handled.st.labels) = {"#needs-test", "#new"}
          /\ Len(history.handled.st.labels) = 2
          /\ \E n \in DOMAIN history.handled.calls :
                /\ PatchesOf(history.handled.calls, "labels") = {n}
                /\ history.handled.calls[n].kwargs = [labels |-> <<"#needs-test", "#new">>]
          /\ history.handled.after.labels = <<"#needs-test", "#new">>

\* The pass of the test was made and its comment is posted.
CommandsInOrderWitness ==
    /\ MultipleActions
    /\ Posts(history.handled.calls) # {}
    /\ history.handled.after.labels = <<"#needs-test", "#new">>

\* The new comments of the pass whose authors hold the permission
ByHolders(permission) ==
    SelectSeq(history.handled.new_comments, LAMBDA c : permission \in PermissionsGet(c.user))

\* The working state the comments lead to from the issue of the pass
Interpreted(comments) ==
    updated_state_by_interpreting_new_comments(comments, StartingState(history.handled.before))

\* C4: unauthorized comment edits are no-ops, per dimension.  The labels,
\* milestone and assignee a pass reads from its new comments are those it
\* would read from the comments of the holders of the 'labels', 'milestone'
\* and 'assignee' permission alone; when no author of a new comment holds the
\* permission of a dimension, the working state of that dimension is the
\* issue's (for labels: up to the removal rules) and no patch of that
\* dimension is issued on account of a comment; and once a run has begun,
\* every repository collaborator holds all three permissions.
UnauthorizedEditsAreNoOps ==
    /\ history.runs > 0
       => \A login \in github.collaborators : PermissionsGet(login) = ALL_PERMISSIONS
    /\ (InPass /\ history.handled.new_comments # <<>>)
       => /\ Interpreted(history.handled.new_comments).labels
             = Interpreted(ByHolders("labels")).labels
          /\ Interpreted(history.handled.new_comments).milestone
             = Interpreted(ByHolders("milestone")).milestone
          /\ Interpreted(history.handled.new_comments).assignee
             = Interpreted(ByHolders("assignee")).assignee
          /\ ByHolders("labels") = <<>>
             => /\ Interpreted(history.handled.new_comments).labels
                   = history.handled.before.labels
                /\ history.handled.st.labels
                   = updated_state_per_label_removal_rules(
                         StartingState(history.handled.before)).labels
                /\ PatchesOf(history.handled.calls, "labels") # {}
                   => Range(history.handled.st.labels) # Range(history.handled.before.labels)
          /\ ByHolders("milestone") = <<>>
             => /\ history.handled.st.milestone = history.handled.before.milestone
                /\ PatchesOf(history.handled.calls, "milestone") = {}
          /\ ByHolders("assignee") = <<>>
             => /\ history.handled.st.assignee = history.handled.before.assignee
                /\ PatchesOf(history.handled.calls, "assignee") = {}

\* chuck, who holds no permission, asked for a label in a new comment of a
\* pass that posted its paper trail and patched nothing
UnauthorizedEditsAreNoOpsWitness ==
    /\ InPass
    /\ ~self.dry_run
    /\ ~history.handled.error
    /\ \E n \in DOMAIN history.handled.new_comments :
          /\ history.handled.new_comments[n].user = "chuck"
          /\ AddLines(history.handled.new_comments[n]) # {}
    /\ ByHolders("labels") = <<>>
    /\ Posts(history.handled.calls) # {}
    /\ \A n \in DOMAIN history.handled.calls : history.handled.calls[n].op # "patch"
    /\ history.handled.after.labels = history.handled.before.labels

\* The calls that change the repository: patches, posts and creations
Mutations(cs) ==
    {n \in DOMAIN cs : cs[n].op \in {"patch", "post", "create_label", "create_milestone"}}

\* C13: dry-run mode.  With dry_run set, an invocation performs no remote
\* mutation at all (no issue patch, no comment post, no label creation, no
\* milestone creation) and leaves the database file as it was, while the
\* snapshots are still computed in memory.
DryRunMutatesNothing ==
    (history.runs > 0 /\ self.dry_run)
    => /\ Mutations(calls) = {}
       /\ disk \in TestDatabases

(***************************************************************************)
(* Commands with an empty value                                            *)
(***************************************************************************)
\* The latest pass, outside dry-run mode and with no failure of the remote
\* side, interpreted one new comment whose author may set the field and whose
\* lines hold the given line, on an issue that had the field set.
ClearedBy(line, key) ==
    /\ InPass
    /\ ~self.dry_run
    /\ history.failures = 0
    /\ Len(history.handled.new_comments) = 1
    /\ key \in PermissionsGet(history.handled.new_comments[1].user)
    /\ line \in Range(StrippedLines(history.handled.new_comments[1].body))
    /\ history.handled.before[key] # None

\* The positions of the calls that create a milestone
Creations(cs) == {n \in DOMAIN cs : cs[n].op = "create_milestone"}

\* The pass issued a patch that sets the key to null, and the call succeeded.
PatchedToNull(key, null) ==
    \E n \in PatchesOf(history.handled.calls, key) :
       /\ history.handled.calls[n].kwargs[key] = null
       /\ history.handled.calls[n].ok

\* C32: clearing by empty value.  An authorised 'milestone=' line on an issue
\* that has a milestone sets the working milestone to none, the pass patches
\* the milestone to null and creates no milestone; an authorised 'assignee='
\* line clears the assignee with an assignee patch to null.
ClearingByEmptyValue ==
    /\ ClearedBy(MilestonePrefix, "milestone")
           => /\ history.handled.st.milestone = None
              /\ PatchedToNull("milestone", NoneInt)
              /\ Creations(history.handled.calls) = {}
    /\ ClearedBy(AssigneePrefix, "assignee")
           => /\ history.handled.st.assignee = None
              /\ PatchedToNull("assignee", None)

(***************************************************************************)
(* Properties of the functions on their own, stated on the arguments and   *)
(* the returned value of the call that fn holds.                           *)
(***************************************************************************)
\* The vote-shaped lines of a comment, in line order
VoteLines(comment) ==
    IF comment.body = <<>> THEN <<>> ELSE SelectSeq(StrippedLines(comment.body), VOTE_REGEX)

\* The positions of the comments in which the author votes
VotingComments(comments, author) ==
    {n \in DOMAIN comments : comments[n].user = author /\ VoteLines(comments[n]) # <<>>}

\* The authors who vote somewhere in the comments
Voters(comments) ==
    {comments[n].user : n \in {k \in DOMAIN comments : VoteLines(comments[k]) # <<>>}}

\* The last vote-shaped line of the last comment in which the author votes
LastVoteLine(comments, author) ==
    LET n == CHOOSE k \in VotingComments(comments, author) :
                 \A j \in VotingComments(comments, author) : j <= k
    IN  VoteLines(comments[n])[Len(VoteLines(comments[n]))]

\* The sum over the distinct authors of the value of their last vote, if
\* someone votes
Tally(comments) ==
    IF Voters(comments) = {} THEN NoneInt
    ELSE Some(SumValues([author \in Voters(comments) |->
                            VoteValue(LastVoteLine(comments, author))]))

\* +1 and +1 by one author, -1 by another
TwoForOneAgainst ==
    << [user |-> "alice_tester", body |-> <<"+", "1">>],
       [user |-> "alice_tester", body |-> <<"+", "1">>],
       [user |-> "bob", body |-> <<"-", "1">>] >>

TrailParts(assignee, milestone, labels, votes) ==
    (IF assignee # None
     THEN <<"**Assignee:** [" \o assignee \o "](https://github.com/" \o assignee \o ").">>
     ELSE <<>>)
    \o (IF milestone # None THEN <<"**Milestone:** " \o milestone \o ".">> ELSE <<>>)
    \o (IF votes # NoneInt
        THEN <<(IF votes[1] = 1 THEN "**Vote:** " ELSE "**Votes:** ")
               \o Join(FormatD(votes[1])) \o ".">>
        ELSE <<>>)
    \o (IF labels # <<>>
        THEN <<(IF Len(labels) = 1 THEN "**Label:** " ELSE "**Labels:** ")
               \o JoinWith(", ", sorted(labels)) \o ".">>
        ELSE <<>>)

RECURSIVE TwoSpacesAfterEach(_)
\* The parts in a row, two spaces after each
TwoSpacesAfterEach(parts) ==
    IF parts = <<>> THEN "" ELSE Head(parts) \o "  " \o TwoSpacesAfterEach(Tail(parts))

\* The list holds every label once, in ascending order
Ascending(names) == \A i, j \in DOMAIN names : i < j => NameLess(names[i], names[j])

\* C10: paper-trail rendering.  getPaperTrailMessage emits its parts in the
\* fixed order assignee (if present), milestone (if present), votes (if the
\* tally is not None, including 0), labels (if any; sorted lexicographically,
\* comma-joined, 'Label' for exactly one and 'Labels' otherwise), each followed
\* by two spaces, then the what's-next clause; for assignee None, milestone
\* None, labels {#new} and votes None the result is exactly "**Label:** #new.
\* **What's next?** A reviewer should examine this issue." (two spaces before
\* the clause).
PaperTrailRendering ==
    (fn # <<>> /\ fn.op = "getPaperTrailMessage" /\ fn.out # NotCalled)
    => /\ Join(fn.out[1])
          = TwoSpacesAfterEach(TrailParts(fn.assignee, fn.milestone, fn.labels, fn.votes))
            \o "**What's next?** "
            \o Join(getWhatsNextMessage(fn.assignee, fn.milestone, fn.labels))
       /\ Ascending(sorted(fn.labels))
       /\ Range(sorted(fn.labels)) = Range(fn.labels)
       /\ (fn.assignee = None /\ fn.milestone = None /\ fn.labels = <<"#new">>
           /\ fn.votes = NoneInt)
          => Join(fn.out[1])
             = "**Label:** #new.  **What's next?** A reviewer should examine this issue."

\* A message with all four parts was rendered: an assignee, a milestone, the
\* tally 0 and two labels given out of order.
PaperTrailRenderingWitness ==
    /\ fn # <<>>
    /\ fn.op = "getPaperTrailMessage"
    /\ fn.out # NotCalled
    /\ fn.assignee = "aljungberg"
    /\ fn.milestone = "Someday"
    /\ fn.votes = Some(0)
    /\ fn.labels = <<"bug", "#acknowledged">>
    /\ Join(fn.out[1])
       = "**Assignee:** [aljungberg](https://github.com/aljungberg).  **Milestone:** Someday.  "
         \o "**Votes:** 0.  **Labels:** #acknowledged, bug.  "
         \o "**What's next?** A reviewer should examine this issue."

\* The final-word labels among the labels
FinalWordsIn(labels) == {label \in Range(FINAL_WORD_LABELS) : label \in Range(labels)}

\* The labels, in their order, that begin with #needs and have an explanation
ExplainedNeeds(labels) ==
    SelectSeq(labels, LAMBDA label :
        /\ Len(Chars(label)) >= 6
        /\ SubSeq(Chars(label), 1, 6) = <<"#", "n", "e", "e", "d", "s">>
        /\ label \in DOMAIN LABEL_EXPLANATIONS)

RECURSIVE BulletList(_)
\* A bullet for the explanation of each label, in order
BulletList(labels) ==
    IF labels = <<>> THEN ""
    ELSE "\n * " \o LABEL_EXPLANATIONS[Head(labels)] \o BulletList(Tail(labels))

NothingApplies ==
    /\ fn # <<>>
    /\ fn.op = "getPaperTrailMessage"
    /\ fn.out # NotCalled
    /\ fn.assignee = None
    /\ fn.milestone = None
    /\ fn.votes = NoneInt
    /\ fn.labels = <<>>

\* The original statement of C12: when nothing applies getPaperTrailMessage
\* returns 'This issue has not been labeled.'
NotLabeledFallback ==
    NothingApplies => Join(fn.out[1]) = "This issue has not been labeled."

\* C12: not-labeled fallback.  When nothing applies (no assignee, no
\* milestone, votes None, no labels) getPaperTrailMessage returns the
\* what's-next clause alone, "**What's next?** A reviewer should examine this
\* issue."; for no arguments at all is the result 'This issue has not been
\* labeled.'.
NeverNotLabeled ==
    /\ NothingApplies
       => Join(fn.out[1]) = "**What's next?** A reviewer should examine this issue."
    /\ (fn # <<>> /\ fn.op = "getPaperTrailMessage" /\ fn.out # NotCalled)
       => Join(fn.out[1]) # "This issue has not been labeled."

\* The message was rendered for an issue to which nothing applies.
NeverNotLabeledWitness ==
    /\ NothingApplies
    /\ Join(fn.out[1]) = "**What's next?** A reviewer should examine this issue."

\* get_issue_changes was called
ChangesCalled == fn # <<>> /\ fn.op = "get_issue_changes" /\ fn.out # NotCalled

\* C23: get_issue_changes returns exactly the set of changed dimensions:
\* 'labels' iff the label names of the issue and of the snapshot differ as
\* sets, 'assignee' iff the assignee id differs, 'milestone' iff the
\* milestone number differs, 'comments' iff the comments were fetched, the
\* comment count of the issue is not zero and latest_seen_comment_id is None
\* or differs from the id of the last fetched comment, 'new' iff the issue's
\* force-paper-trail flag is set; and nothing else.
ChangedDimensions ==
    ChangesCalled
    => /\ fn.out[1] \subseteq {"labels", "assignee", "milestone", "comments", "new"}
       /\ "labels" \in fn.out[1]
          <=> \E label \in Range(fn.labels) \cup Range(fn.record_labels) :
                 ~(label \in Range(fn.labels) /\ label \in Range(fn.record_labels))
       /\ "assignee" \in fn.out[1]
          <=> ~ \/ fn.assignee = None /\ fn.assignee_id = NoneInt
                \/ /\ fn.assignee # None
                   /\ fn.assignee_id # NoneInt
                   /\ Logins[fn.assignee_id[1]] = fn.assignee
       /\ "milestone" \in fn.out[1]
          <=> ~ \/ fn.milestone = None /\ fn.milestone_number = NoneInt
                \/ /\ fn.milestone # None
                   /\ fn.milestone_number # NoneInt
                   /\ github.milestones[fn.milestone_number[1]] = fn.milestone
       /\ "comments" \in fn.out[1]
          <=> /\ fn.about_comments.fetched
              /\ fn.about_comments.comments > 0
              /\ \/ fn.latest_seen_comment_id = NoneInt
                 \/ \E n \in DOMAIN fn.about_comments._comments :
                       /\ n = Len(fn.about_comments._comments)
                       /\ fn.about_comments._comments[n].id # fn.latest_seen_comment_id[1]
       /\ "new" \in fn.out[1] <=> fn._force_paper_trail

\* The labels of the issue are those of the record in another order, the
\* assignee is another, the milestone was set, the last fetched comment is the
\* recorded one: the changes are the assignee and the milestone.
ChangedDimensionsWitness ==
    /\ ChangesCalled
    /\ fn.record_labels = <<"#new", "bug">>
    /\ fn.labels = <<"bug", "#new">>
    /\ fn.assignee_id = Some(2)
    /\ fn.assignee = "aljungberg"
    /\ fn.milestone_number = NoneInt
    /\ fn.milestone = "1.0"
    /\ fn.about_comments.fetched
    /\ fn.about_comments.comments = 2
    /\ fn.latest_seen_comment_id = Some(3)
    /\ ~fn._force_paper_trail
    /\ fn.out[1] = {"assignee", "milestone"}

\* get_new_comments was called
NewCommentsCalled == fn # <<>> /\ fn.op = "get_new_comments" /\ fn.out # NotCalled

\* C24: get_new_comments returns exactly the fetched comments whose id is
\* greater than the snapshot's latest_seen_comment_id, in ascending order of
\* id, also when no fetched comment has the recorded id; all comments when
\* latest_seen_comment_id is None, and none when no comment has a greater id.
NewCommentsAreLater ==
    NewCommentsCalled
    => /\ fn.latest_seen_comment_id = NoneInt => fn.out[1] = fn.comments
       /\ fn.latest_seen_comment_id # NoneInt
          => /\ fn.out[1]
                = SelectSeq(fn.comments, LAMBDA c : c.id > fn.latest_seen_comment_id[1])
             /\ (\A n \in DOMAIN fn.comments :
                    fn.comments[n].id <= fn.latest_seen_comment_id[1])
                => fn.out[1] = <<>>
       /\ \A i, j \in DOMAIN fn.out[1] : i < j => fn.out[1][i].id < fn.out[1][j].id

\* The comment with the recorded id 2 is gone; of the comments 1, 3 and 4 the
\* call returned 3 and 4.
NewCommentsAreLaterWitness ==
    /\ NewCommentsCalled
    /\ fn.latest_seen_comment_id = Some(2)
    /\ fn.comments = <<CommentWithId(1), CommentWithId(3), CommentWithId(4)>>
    /\ fn.out[1] = <<CommentWithId(3), CommentWithId(4)>>

(***************************************************************************)
(* The label removal rules                                                 *)
(***************************************************************************)
RulesCalled == fn.op = "updated_state_per_label_removal_rules" /\ fn.out # NotCalled

\* The positions of the list that hold a label of MUTUALLY_EXCLUSIVE_LABELS
ExclusiveAt(labels) == {i \in DOMAIN labels : labels[i] \in Range(MUTUALLY_EXCLUSIVE_LABELS)}

Highest(positions) == CHOOSE k \in positions : \A j \in positions : j <= k

\* The labels of the list that a rule removes whose trigger is in the list
Cascaded(labels, rules) ==
    {label \in Range(labels) :
        \E n \in DOMAIN rules : /\ rules[n].trigger \in Range(labels)
                                /\ label \in Range(rules[n].remove)}

\* A label that is no state label and that no rule removes
OutsideRules(label, rules) ==
    /\ label \notin Range(MUTUALLY_EXCLUSIVE_LABELS)
    /\ \A n \in DOMAIN rules : label \notin Range(rules[n].remove)

\* C27 as stated: after updated_state_per_label_removal_rules the working labels
\* hold at most one label of MUTUALLY_EXCLUSIVE_LABELS; if several were in the
\* list that was passed in, the one kept is the one at the highest position of
\* that list; every label outside the rules is kept.
MutualExclusion ==
    RulesCalled =>
        LET out == fn.out[1].labels
        IN  /\ Cardinality(ExclusiveAt(out)) <= 1
            /\ Cardinality(ExclusiveAt(fn.labels)) > 1
                   => {out[i] : i \in ExclusiveAt(out)}
                         = {fn.labels[Highest(ExclusiveAt(fn.labels))]}
            /\ \A label \in Range(fn.labels) :
                   OutsideRules(label, fn.rules) => label \in Range(out)

\* The positions of the state labels that the cascade leaves in the list
Surviving(labels, rules) ==
    {i \in ExclusiveAt(labels) : labels[i] \notin Cascaded(labels, rules)}

\* C27: after updated_state_per_label_removal_rules the working labels hold at
\* most one label of MUTUALLY_EXCLUSIVE_LABELS: of the state labels passed in
\* that no rule with a present trigger removes, the one at the highest
\* position; if there is none, no state label is left.  The labels kept are in
\* the order they came in, and every label outside the rules is kept.
MutualExclusionAfterCascade ==
    RulesCalled =>
        LET out == fn.out[1].labels
            left == Surviving(fn.labels, fn.rules)
        IN  /\ Cardinality(ExclusiveAt(out)) <= 1
            /\ {out[i] : i \in ExclusiveAt(out)}
                  = IF left = {} THEN {} ELSE {fn.labels[Highest(left)]}
            /\ out = SelectSeq(fn.labels, LAMBDA label : label \in Range(out))
            /\ \A label \in Range(fn.labels) :
                   OutsideRules(label, fn.rules) => label \in Range(out)

\* Several state labels came in, none of them removed by a rule, the highest
\* was not the first of them, and one is left.
MutualExclusionWitness ==
    /\ RulesCalled
    /\ Cardinality(Surviving(fn.labels, fn.rules)) > 1
    /\ Cascaded(fn.labels, fn.rules) = {}
    /\ Cardinality(ExclusiveAt(fn.out[1].labels)) = 1
    /\ Len(fn.out[1].labels) < Len(fn.labels)
    /\ "bug" \in Range(fn.out[1].labels)

\* The labels passed in that are no longer in the list
RemovedByRules == Range(fn.labels) \ Range(fn.out[1].labels)

\* C28: cascade removal. After updated_state_per_label_removal_rules no trigger
\* of WHEN_LABEL_REMOVE_LABELS is in the working labels together with a label
\* of its remove-set.  The removals go through remove_label: when a label of
\* OPEN_ISSUE_WHEN_CAPPBOT_REMOVES_LABEL was removed, a reopen is scheduled for
\* such a label and no close is, and otherwise the flags are as they were;
\* when one label was removed, the state is the one remove_label gives.
CascadeRemoval ==
    RulesCalled =>
        LET out == fn.out[1]
            reopening == RemovedByRules \cap Range(OPEN_ISSUE_WHEN_CAPPBOT_REMOVES_LABEL)
        IN  /\ \A n \in DOMAIN fn.rules :
                   fn.rules[n].trigger \in Range(out.labels)
                      => Range(fn.rules[n].remove) \cap Range(out.labels) = {}
            /\ reopening # {} => /\ out.should_open_issue \in reopening
                                 /\ out.should_close_issue = False
            /\ reopening = {} => /\ out.should_open_issue = False
                                 /\ out.should_close_issue = fn.should_close_issue
            /\ \A label \in RemovedByRules :
                   RemovedByRules = {label} => out = remove_label(label, RulesState(fn))

\* A rule whose trigger is in the list removed a label of the reopen set, the
\* one a command had just added, and nothing else was removed.
CascadeRemovalWitness ==
    /\ RulesCalled
    /\ fn.should_close_issue = "#duplicate"
    /\ RemovedByRules = {"#duplicate"}
    /\ "#duplicate" \in Cascaded(fn.labels, fn.rules)
    /\ fn.out[1].should_open_issue = "#duplicate"
    /\ fn.out[1].should_close_issue = False

(***************************************************************************)
(* The classification of comment lines                                     *)
(***************************************************************************)
LineCalled == fn.op = "interpret" /\ fn.out # NotCalled

\* What the line of the call is to do to the working state, by its kind, when
\* its author may do anything
LineEffect(line, st) ==
    IF line.kind = "add" THEN [st EXCEPT !.labels = MovedToEnd(@, line.arg)]
    ELSE IF line.kind = "remove"
    THEN [st EXCEPT !.labels = SelectSeq(@, LAMBDA label : label # line.arg)]
    ELSE IF line.kind = "milestone" THEN [st EXCEPT !.milestone = line.arg]
    ELSE IF line.kind = "assignee" THEN [st EXCEPT !.assignee = line.arg]
    ELSE st

\* C31: line classification.  A trimmed line is taken for one grammar only:
\* a vote-shaped line (+1, -1, +0, -0) adds and removes no label although
\* labels named 1 and 0 exist, '+label' and a bare '#label' add the label,
\* '-label' removes it, 'milestone=' and 'assignee=' set their field and
\* nothing else, a line of no grammar changes nothing; whoever may do nothing
\* changes nothing.
LineClassification ==
    LineCalled =>
        LET out == fn.out[1]
            st == LineState(fn)
        IN  /\ out = IF fn.user = "chuck" THEN st ELSE LineEffect(fn.line, st)
            /\ fn.line.kind \in {"vote", "none"} => out = st

\* A collaborator wrote ' +1  ' on an issue labelled '1': the labels are as
\* they were.
LineClassificationWitness ==
    /\ LineCalled
    /\ fn.line.text = <<"+", "1">>
    /\ fn.padded
    /\ fn.user = "alice_tester"
    /\ "1" \in Range(fn.labels)
    /\ fn.out[1].labels = fn.labels
    /\ fn.labels[Len(fn.labels)] # "1"

(***************************************************************************)
(* Properties of the invocations in the presence of users, failures and    *)
(* kills: deja vu, paper trails, failures.                                 *)
(***************************************************************************)
\* The latest turn of phase 1 met an issue the database did not know although
\* the bot had commented on it.
DejaVu ==
    /\ history.prepared.run > 0
    /\ ~history.prepared.seen
    /\ history.prepared.before.number \notin self.ignore
    /\ \E n \in DOMAIN history.prepared.remote_before.comments :
          history.prepared.remote_before.comments[n].user = GITHUB_USER

\* The latest turn of phase 1 belongs to the current invocation, which has
\* not handled the issue in phase 2 and has neither patched an issue nor
\* posted a comment.
SkippedInPhase2 ==
    history.prepared.run = history.runs
    => /\ history.handled.run # history.runs
       /\ IssueCalls(calls) = {}

\* C14: deja vu, default policy.  For an issue with no snapshot that carries
\* a comment of the bot, with memorise_forgotten off, phase 1 issues no call
\* and creates no snapshot and marks the issue ignorable; the invocation does
\* not handle it in phase 2, patches nothing and posts nothing, and the
\* database still holds no snapshot of it, so that the same happens in every
\* later invocation in default mode.
DejaVuIgnored ==
    (DejaVu /\ ~self.memorise_forgotten)
    => /\ history.prepared.calls = <<>>
       /\ ~history.prepared.error
       /\ history.prepared.record = <<>>
       /\ history.prepared.after._should_ignore
       /\ SkippedInPhase2
       /\ history.prepared.run = history.runs
          => history.prepared.issue \notin DOMAIN database.issues

\* A second invocation in default mode has met the issue with the bot's
\* comment and ended.
DejaVuIgnoredWitness ==
    /\ DejaVu
    /\ ~self.memorise_forgotten
    /\ ~self.dry_run
    /\ history.runs = 2
    /\ history.prepared.run = 2
    /\ history.prepared.before.state = "open"
    /\ pc = "idle"
    /\ disk.issues = EmptyDatabase.issues

\* The snapshot is the issue's remote state when phase 1 met it, with the
\* tally of its comments and the id of its last comment.
MemorisedRemoteState(record, remote) ==
    /\ Range(record.labels) = Range(remote.labels)
    /\ Len(record.labels) = Cardinality(Range(remote.labels))
    /\ record.milestone_number
       = (IF remote.milestone = None THEN NoneInt
          ELSE Some(MilestoneNumber(github, remote.milestone)))
    /\ record.assignee_id
       = (IF remote.assignee = None THEN NoneInt ELSE Some(UserId(remote.assignee)))
    /\ record.updated_at = Some(remote.updated_at)
    /\ record.votes = Tally(remote.comments)
    /\ record.latest_seen_comment_id = Some(remote.comments[Len(remote.comments)].id)

\* What phase 1 does in memorise-forgotten mode
Memorised ==
    /\ history.prepared.calls = <<>>
    /\ history.prepared.record # <<>>
    /\ MemorisedRemoteState(history.prepared.record[1], history.prepared.remote_before)
    /\ history.prepared.after._should_ignore
    /\ SkippedInPhase2

\* The original statement of C15: with memorise_forgotten on, phase 1
\* memorises every issue with no snapshot that carries a bot comment.
MemoriseForgotten ==
    (DejaVu /\ self.memorise_forgotten /\ ~history.prepared.error) => Memorised

\* C15: deja vu, memorise-forgotten policy.  For an issue with no snapshot
\* that carries a bot comment and is not skipped as closed and not updated
\* since the first run, with memorise_forgotten on, phase 1 creates a
\* snapshot equal to the issue's current remote labels, milestone, assignee
\* and updated_at, with votes equal to the recomputed tally and
\* latest_seen_comment_id equal to the id of the last comment, issues no patch
\* and posts no comment, and the issue is skipped in phase 2 of that run.  An
\* issue skipped as closed and not updated since the first run is not
\* memorised.
MemoriseForgottenUnlessLongClosed ==
    /\ (DejaVu /\ self.memorise_forgotten /\ ~history.prepared.error /\ ~SkippedAsLongClosed)
       => Memorised
    /\ (DejaVu /\ self.memorise_forgotten /\ SkippedAsLongClosed)
       => history.prepared.record = <<>> /\ history.prepared.calls = <<>>

\* An issue with a paper trail and a vote of a user was memorised.
MemoriseForgottenWitness ==
    /\ DejaVu
    /\ self.memorise_forgotten
    /\ ~SkippedAsLongClosed
    /\ history.prepared.record # <<>>
    /\ history.prepared.record[1].votes \notin {NoneInt, Some(0)}
    /\ history.prepared.record[1].latest_seen_comment_id # NoneInt
    /\ pc = "idle"

\* The labels (as a set), the milestone or the assignee of the issue as fetched
\* differ from the record.
TrackedDiffer(record, issue) ==
    \/ Range(record.labels) # Range(issue.labels)
    \/ record.milestone_number
       # (IF issue.milestone = None THEN NoneInt
          ELSE Some(MilestoneNumber(github, issue.milestone)))
    \/ record.assignee_id
       # (IF issue.assignee = None THEN NoneInt ELSE Some(UserId(issue.assignee)))

\* A non-dry invocation has come to its end without error, and its phase 1
\* met a previously seen issue, not in the ignore list, whose tracked
\* dimensions differed from its snapshot.
RanOnTrackedChange ==
    /\ pc = "finally"
    /\ ~self.dry_run
    /\ ~history.error
    /\ history.prepared.run = history.runs
    /\ history.prepared.seen
    /\ history.prepared.before.number \notin self.ignore
    /\ TrackedDiffer(history.prepared.record_before[1], history.prepared.before)

\* The invocation posted one comment, the paper trail of the final working
\* state and the stored tally.
PostedPaperTrail ==
    /\ InPass
    /\ \E n \in DOMAIN calls :
          /\ Posts(calls) = {n}
          /\ calls[n].body
             = getPaperTrailMessage(history.handled.st.assignee, history.handled.st.milestone,
                                    history.handled.st.labels, history.handled.record.votes)

\* C16: paper trail on tracked changes.  A non-dry run that ends without
\* error, on a previously seen issue whose remote labels (as a set), milestone
\* or assignee differ from its snapshot at the start of the run, posts exactly
\* one paper-trail comment on the issue, rendered from the final working
\* state (assignee, milestone, labels) and the stored vote tally; no run posts
\* more than one comment on an issue.
PaperTrailOnTrackedChange ==
    /\ Cardinality(Posts(calls)) <= 1
    /\ RanOnTrackedChange => PostedPaperTrail

\* The comments hold one of the bot
BotCommented(comments) == \E n \in DOMAIN comments : comments[n].user = GITHUB_USER

\* Phase 2 of the current invocation, not a dry run, handled the issue
\* without error.
HandledForReal == InPass /\ ~self.dry_run /\ ~history.handled.error

\* C17: first status comment.  A pass of phase 2, outside dry-run mode and
\* without error, over an issue on which the bot has never commented posts
\* one paper-trail comment in that pass, whether or not a change of labels,
\* milestone, assignee or comments was detected; so after such a pass the
\* handled issue carries at least one comment of the bot.
FirstStatusComment ==
    /\ (HandledForReal /\ ~BotCommented(history.handled.remote_before.comments))
       => /\ "new" \in history.handled.changes
          /\ \E n \in DOMAIN history.handled.calls :
                /\ Posts(history.handled.calls) = {n}
                /\ history.handled.calls[n].ok
                /\ history.handled.calls[n].body
                   = getPaperTrailMessage(history.handled.st.assignee,
                                          history.handled.st.milestone,
                                          history.handled.st.labels,
                                          history.handled.record.votes)
    /\ HandledForReal => BotCommented(github.issues[history.handled.issue].comments)

\* An issue without a comment of the bot was handled with no change detected
\* but the forced one, and the paper trail was posted.
FirstStatusCommentWitness ==
    /\ HandledForReal
    /\ ~BotCommented(history.handled.remote_before.comments)
    /\ history.handled.changes = {"new"}
    /\ Posts(history.handled.calls) # {}
    /\ BotCommented(github.issues[history.handled.issue].comments)

\* The dimensions among labels, milestone and assignee in which the working
\* state of the latest pass differs from the issue it set out from
Differing ==
    {key \in {"labels", "milestone", "assignee"} :
        \/ key = "labels"
           /\ Range(history.handled.st.labels) # Range(history.handled.before.labels)
        \/ key = "milestone"
           /\ history.handled.st.milestone # history.handled.before.milestone
        \/ key = "assignee"
           /\ history.handled.st.assignee # history.handled.before.assignee}

\* The patch of one of several differing dimensions failed in the latest pass.
DimensionPatchFailed ==
    /\ InPass
    /\ ~self.dry_run
    /\ Cardinality(Differing) >= 2
    /\ \E n \in DOMAIN history.handled.calls, key \in Differing :
          /\ n \in PatchesOf(history.handled.calls, key)
          /\ ~history.handled.calls[n].ok

\* C18: per-dimension failure isolation.  When the working state of an issue
\* differs from the remote issue in several of labels, milestone and assignee
\* and the patch of one of them fails, the patches of the other differing
\* dimensions are still attempted in that pass.
FailureIsolation ==
    DimensionPatchFailed => \A key \in Differing : PatchesOf(history.handled.calls, key) # {}

\* The latest call of the current invocation, a patch or a post, raised.
MutationFailed ==
    /\ history.runs > 0
    /\ history.error
    /\ calls # <<>>
    /\ ~calls[Len(calls)].ok
    /\ calls[Len(calls)].op \in {"patch", "post"}

\* The remote issue shows what the call asked for in the field.
ShownRemotely(call, key) ==
    IF key = "milestone"
    THEN github.issues[call.issue].milestone
         = (IF call.kwargs.milestone = NoneInt THEN None
            ELSE github.milestones[call.kwargs.milestone[1]])
    ELSE github.issues[call.issue][key] = call.kwargs[key]

\* Every mutation of the invocation that succeeded shows remotely: a post as
\* a comment of the bot, a patch in its fields unless a later patch that
\* succeeded set them again.
StayApplied ==
    \A n \in DOMAIN calls :
        /\ (calls[n].ok /\ calls[n].op = "post")
           => \E k \in DOMAIN github.issues[calls[n].issue].comments :
                 /\ github.issues[calls[n].issue].comments[k].user = GITHUB_USER
                 /\ github.issues[calls[n].issue].comments[k].body = calls[n].body
        /\ (calls[n].ok /\ calls[n].op = "patch")
           => \A key \in DOMAIN calls[n].kwargs :
                 \/ ShownRemotely(calls[n], key)
                 \/ \E k \in PatchesOf(calls, key) : k > n /\ calls[k].ok

\* The file holds what the database held when the invocation ended:
\* first_run as phase 1 left it, and the record of the issue as the latest
\* handler left it.
SavedAsAccumulated ==
    /\ history.prepared.run = history.runs
    /\ disk.first_run = history.prepared.first_run
    /\ IF InPass
       THEN /\ DOMAIN disk.issues = {history.handled.issue}
            /\ disk.issues[history.handled.issue] = history.handled.record
       ELSE IF history.prepared.record = <<>> THEN DOMAIN disk.issues = {}
       ELSE /\ DOMAIN disk.issues = {history.prepared.issue}
            /\ disk.issues[history.prepared.issue] = history.prepared.record[1]

NoPartialSnapshot ==
    (InPass /\ MutationFailed /\ calls[Len(calls)].phase = 2)
    => history.handled.record = history.handled.record_before

\* The latest pass of phase 2 was made by the invocation before the current
\* one and ended on its first call, a patch that raised, of labels, milestone
\* or assignee as the new comments of the pass ask for them, or of the title
\* for their votes.
AbortedOnCommandPatch ==
    /\ history.runs > 1
    /\ history.handled.run = history.runs - 1
    /\ history.handled.error
    /\ history.handled.new_comments # <<>>
    /\ Len(history.handled.calls) = 1
    /\ history.handled.calls[1].op = "patch"
    /\ ~history.handled.calls[1].ok
    /\ \/ /\ DOMAIN history.handled.calls[1].kwargs = {"labels"}
          /\ Range(Interpreted(history.handled.new_comments).labels)
             # Range(history.handled.before.labels)
       \/ DOMAIN history.handled.calls[1].kwargs = {"milestone"}
       \/ DOMAIN history.handled.calls[1].kwargs = {"assignee"}
       \/ DOMAIN history.handled.calls[1].kwargs = {"title"}

\* The current invocation, not killed and without failure, has come to its
\* end, and it found the remote issue as the aborted pass had found it.
ReranUndisturbed ==
    /\ pc = "finally"
    /\ ~history.error
    /\ history.kills = 0
    /\ history.prepared.run = history.runs
    /\ history.prepared.remote_before = history.handled.remote_before

\* C21: re-running is the recovery path.  If a run aborts because a labels,
\* milestone, assignee or title patch derived from new comment commands or
\* votes failed, the next run, with no remote change in between and no
\* failure, issues that patch again.
RerunRecovers ==
    (AbortedOnCommandPatch /\ ReranUndisturbed)
    => \E n \in DOMAIN calls :
          /\ calls[n].op = "patch"
          /\ calls[n].kwargs = history.handled.calls[1].kwargs

\* The invocation before the current one was killed after patches or posts
\* of it had been applied, and the current one, without failure, has come to
\* its end on an issue that is not in the ignore list.
RanAfterInterruption ==
    /\ history.runs > 1
    /\ history.lost.run = history.runs - 1
    /\ \E n \in IssueCalls(history.lost.calls) : history.lost.calls[n].ok
    /\ pc = "finally"
    /\ ~history.error
    /\ history.prepared.run = history.runs
    /\ history.prepared.before.number \notin self.ignore

MetUnchanged ==
    /\ history.runs > 0
    /\ history.prepared.run = history.runs
    /\ history.prepared.seen
    /\ history.prepared.before.number \notin self.ignore
    /\ history.prepared.record_before[1].updated_at = Some(history.prepared.before.updated_at)
    /\ ~TrackedDiffer(history.prepared.record_before[1], history.prepared.before)

\* C25: skip optimization.  A previously seen issue whose remote updated_at
\* equals the snapshot's and whose labels, milestone and assignee match the
\* snapshot is marked ignorable in phase 1; in that run its comments are not
\* fetched, no patch or comment is issued for it, phase 2 does not handle it,
\* and its snapshot is left unchanged.
SkipUnchanged ==
    MetUnchanged
    => /\ history.prepared.after._should_ignore
       /\ ~history.prepared.after.has_comments
       /\ history.prepared.calls = <<>>
       /\ history.prepared.record = history.prepared.record_before
       /\ history.handled.run # history.runs
       /\ IssueCalls(calls) = {}
       /\ database.issues[history.prepared.issue] = history.prepared.record_before[1]

\* A second invocation has met the issue as the first one recorded it, with a
\* comment on it, and has ended.
SkipUnchangedWitness ==
    /\ MetUnchanged
    /\ history.runs = 2
    /\ pc = "idle"
    /\ history.prepared.remote_before.comments # <<>>
    /\ ~history.prepared.after.has_comments
    /\ disk.issues[history.prepared.issue] = history.prepared.record_before[1]

\* The latest pass of phase 2 was made by the invocation before the current
\* one and found no changes for the issue.
FoundNoChanges ==
    /\ history.runs > 1
    /\ history.handled.run = history.runs - 1
    /\ ~history.handled.error
    /\ history.handled.changes = {}
    /\ history.handled.new_comments = <<>>
    /\ history.handled.calls = <<>>

\* C26: comment fetching stops for unchanged issues.  Once a pass finds no
\* changes for a previously seen issue, the following pass over the same
\* unchanged remote state skips the issue in phase 1 without fetching its
\* comments.
FetchingStops ==
    (/\ FoundNoChanges
     /\ history.prepared.run = history.runs
     /\ history.prepared.before.number \notin self.ignore
     /\ history.prepared.remote_before = history.handled.remote_before)
    => /\ history.prepared.after._should_ignore
       /\ ~history.prepared.after.has_comments

\* The working state of the latest pass differs from the issue as it was when
\* the handler began, in the given dimension.
WorkingDiffers(key) ==
    IF key = "labels"
    THEN Range(history.handled.st.labels) # Range(history.handled.before.labels)
    ELSE history.handled.st[key] # history.handled.before[key]

\* The patches of a list of calls that carry the key carry nothing else.
Separate(cs, key) == \A n \in PatchesOf(cs, key) : DOMAIN cs[n].kwargs = {key}

\* C29: minimal patches.  In phase 2 of a non-dry run a labels patch is issued
\* iff the final working label set differs from the label set of the issue as
\* read when the handler began, a milestone patch iff the working milestone
\* differs, an assignee patch iff the working login differs; each is a call of
\* its own, issued at most once in the pass, and the labels patch carries the
\* sorted working labels.
MinimalPatches ==
    (InPass /\ ~self.dry_run) =>
        /\ \A key \in {"labels", "milestone", "assignee"} :
              /\ PatchesOf(history.handled.calls, key) # {} <=> WorkingDiffers(key)
              /\ Cardinality(PatchesOf(history.handled.calls, key)) <= 1
              /\ Separate(history.handled.calls, key)
        /\ \A n \in PatchesOf(history.handled.calls, "labels") :
              history.handled.calls[n].kwargs.labels = sorted(history.handled.st.labels)

\* The latest pass handled an issue the database knew when the invocation
\* began phase 1, on which the bot had commented, whose labels, milestone and
\* assignee matched the snapshot, and the new comments left the label set,
\* the milestone, the assignee and the tally as they were.
NothingToReport ==
    /\ InPass
    /\ history.prepared.run = history.runs
    /\ history.prepared.seen
    /\ BotCommented(history.handled.before._comments)
    /\ ~TrackedDiffer(history.handled.record_before, history.handled.before)
    /\ Range(history.handled.st.labels) = Range(history.handled.before.labels)
    /\ history.handled.st.milestone = history.handled.before.milestone
    /\ history.handled.st.assignee = history.handled.before.assignee
    /\ ~history.handled.did_change_votes
    /\ history.handled.record.votes = history.handled.record_before.votes

\* C30 as stated: no paper trail without a change.  A pass with nothing to
\* report posts no comment and issues no patch.
NoPaperTrailWithoutChange ==
    NothingToReport => IssueCalls(history.handled.calls) = {}

(***************************************************************************)
(* The first_run stamp                                                     *)
(***************************************************************************)
\* An invocation outside dry-run mode has ended and saved the database, and
\* nothing was killed and no call failed so far.
ExecutedAndSaved ==
    /\ pc = "idle"
    /\ history.runs >= 1
    /\ ~self.dry_run
    /\ history.kills = 0
    /\ history.failures = 0

\* The saved database has a first_run once an invocation has ended.
FirstRunSetByFirstExecution == ExecutedAndSaved => disk.first_run # NoneInt

\* A step leaves a first_run that is set in the saved database as it is.
FirstRunKept == disk.first_run # NoneInt => disk'.first_run = disk.first_run

\* C33: the first_run timestamp.  The database's first_run is set during the
\* first execution of the bot and, once set, no later operation or run changes
\* it.
FirstRunStamp ==
    /\ []FirstRunSetByFirstExecution
    /\ [][FirstRunKept]_vars

(***************************************************************************)
(* Issues closed since before the first run                                *)
(***************************************************************************)
\* Phase 1 of the current invocation met a closed issue that is not in the
\* ignore list.
MetClosed ==
    /\ history.runs > 0
    /\ history.prepared.run = history.runs
    /\ history.prepared.before.number \notin self.ignore
    /\ settings.IGNORE_CLOSED_ISSUES_NOT_UPDATED_SINCE_FIRST_RUN
    /\ history.prepared.before.state = "closed"
    /\ history.prepared.first_run # NoneInt

\* The issue was known and its updated_at, labels, milestone and assignee
\* were those of its snapshot.
AsRecorded ==
    /\ history.prepared.seen
    /\ history.prepared.record_before[1].updated_at = Some(history.prepared.before.updated_at)
    /\ ~TrackedDiffer(history.prepared.record_before[1], history.prepared.before)

\* The snapshot of the issue phase 1 met, if the database has one
SnapshotNow ==
    IF has_seen_issue(database, history.prepared.before)
    THEN <<database.issues[history.prepared.issue]>>
    ELSE <<>>

MetListed ==
    /\ history.runs > 0
    /\ history.prepared.run = history.runs
    /\ history.prepared.before.number \in self.ignore

\* C35: the ignore list.  An issue whose number is in the ignore list of the
\* run is skipped in both phases: its comments are not fetched, no patch or
\* comment is issued for it, and its snapshot, present or absent, is left
\* exactly as it was.
IgnoreList ==
    MetListed
    => /\ history.prepared.after = history.prepared.before
       /\ ~history.prepared.after.has_comments
       /\ history.prepared.calls = <<>>
       /\ history.prepared.record = history.prepared.record_before
       /\ history.handled.run # history.runs
       /\ IssueCalls(calls) = {}
       /\ SnapshotNow = history.prepared.record_before

\* An invocation has ended that had an open, unknown issue in its ignore
\* list, with a comment of a user on it.
IgnoreListWitness ==
    /\ MetListed
    /\ pc = "idle"
    /\ history.prepared.before.state = "open"
    /\ ~history.prepared.seen
    /\ history.prepared.remote_before.comments # <<>>

(***************************************************************************)
(* The snapshots of the database                                           *)
(***************************************************************************)
\* Every snapshot of the database has a votes and a latest_seen_comment_id
\* field.
HasBothFields(db) ==
    \A k \in DOMAIN db.issues : {"votes", "latest_seen_comment_id"} \subseteq DOMAIN db.issues[k]

\* record_issue, called now on any fetched issue that has a snapshot, would
\* leave the two fields of the snapshot as they are.
RecordIssueKeepsFields ==
    \A n \in DOMAIN issues :
       has_seen_issue(database, issues[n])
       => LET record == record_issue(database, github, issues[n]).issues[issues[n].id]
          IN  /\ record.votes = database.issues[issues[n].id].votes
              /\ record.latest_seen_comment_id
                 = database.issues[issues[n].id].latest_seen_comment_id

\* The latest turn of phase 1 that recorded the issue, and the latest turn of
\* phase 2 that ended without exception, left the sorted label names of the
\* issue in the snapshot.
LabelsAsRecorded ==
    /\ history.prepared.run > 0 /\ ~history.prepared.error
          /\ history.prepared.record # history.prepared.record_before
       => history.prepared.record[1].labels = sorted(history.prepared.after.labels)
    /\ history.handled.run > 0 /\ ~history.handled.error
       => history.handled.record.labels = sorted(history.handled.after.labels)

\* A step of a running invocation drops no snapshot from the loaded database,
\* and no step drops one from the saved database.
SnapshotsStay ==
    /\ pc # "idle" /\ pc' # "idle" => DOMAIN database.issues \subseteq DOMAIN database'.issues
    /\ DOMAIN disk.issues \subseteq DOMAIN disk'.issues

\* C36: the snapshot invariant.  Every snapshot in the database has a votes
\* and a latest_seen_comment_id field; record_issue on an existing snapshot
\* leaves these two fields unchanged; the labels of a snapshot are the sorted
\* label names of the issue as of the last recording; no operation removes a
\* snapshot.
SnapshotInvariant ==
    /\ [](HasBothFields(database) /\ HasBothFields(disk))
    /\ []RecordIssueKeepsFields
    /\ []LabelsAsRecorded
    /\ [][SnapshotsStay]_vars

\* A turn of phase 2 has recorded anew an issue whose snapshot held a tally
\* and a latest seen comment, and whose labels were fetched out of order.
SnapshotInvariantWitness ==
    /\ InPass
    /\ ~history.handled.error
    /\ history.handled.record_before.votes # NoneInt
    /\ history.handled.record_before.latest_seen_comment_id # NoneInt
    /\ history.handled.record.votes # NoneInt
    /\ Len(history.handled.after.labels) >= 2
    /\ history.handled.after.labels # sorted(history.handled.after.labels)

(***************************************************************************)
(* The order of the saves                                                  *)
(***************************************************************************)
\* The positions in a list of calls of the steps of save_database
FileCalls(cs) == {n \in DOMAIN cs : cs[n].op \in {"open", "dump", "move"}}

\* The positions of the calls to the remote side
RemoteCalls(cs) == DOMAIN cs \ FileCalls(cs)

\* The current invocation wrote the database at its start.
WroteEarly == Len(calls) >= 3 /\ SubSeq(calls, 1, 3) = SaveCalls(0, 0)

\* The current invocation is past its first save, in run() or at its end.
Running == pc \in {"main", "phase1", "phase2", "finally"}

\* The latest invocation called run(), and run() and the finally clause are
\* over.
RunEnded == pc \in {"idle", "blocked"} /\ WroteEarly

\* C37: persistence ordering.  A non-dry invocation writes the database (into
\* the temporary file, then moved onto the database path) once before any
\* remote call is made, and once more after run() ends, whether run()
\* completed or raised; a failure of the first write prevents every remote
\* call.
PersistenceOrdering ==
    ~self.dry_run
    => /\ RemoteCalls(calls) # {} => WroteEarly
       /\ Running => WroteEarly /\ FileCalls(calls) = 1..3
       /\ RunEnded
          => \E n \in 4..Len(calls) :
                /\ calls[n] = [op |-> "open", phase |-> 3, ok |-> calls[n].ok]
                /\ FileCalls(calls) = 1..3 \cup n..Len(calls)
                /\ calls[Len(calls)].ok => SubSeq(calls, n, Len(calls)) = SaveCalls(0, 3)
       /\ calls # <<>> /\ ~WroteEarly => RemoteCalls(calls) = {}

\* A non-dry invocation saved, posted a comment, had a patch refused, and
\* saved again.
PersistenceOrderingWitness ==
    /\ ~self.dry_run
    /\ RunEnded
    /\ pc = "idle"
    /\ history.error
    /\ Posts(calls) # {}
    /\ \E n \in RemoteCalls(calls) : ~calls[n].ok
    /\ calls[Len(calls)] = [op |-> "move", phase |-> 3, ok |-> TRUE]

(***************************************************************************)
(* The flags should_open_issue and should_close_issue                      *)
(***************************************************************************)
\* At most one of the two flags is set.
AtMostOneFlag(st) == st.should_open_issue = False \/ st.should_close_issue = False

\* The working state the latest turn of phase 2 began with
WorkingStateAtStart ==
    [labels |-> history.handled.before.labels,
     milestone |-> history.handled.before.milestone,
     assignee |-> history.handled.before.assignee,
     should_open_issue |-> False,
     should_close_issue |-> False]

\* The working states of that turn: after each of the new comments, after
\* the removal rules, and at its end.
WorkingStates ==
    {updated_state_by_interpreting_new_comments(
         SubSeq(history.handled.new_comments, 1, k), WorkingStateAtStart) :
            k \in 0..Len(history.handled.new_comments)}
    \cup {updated_state_per_label_removal_rules(
              updated_state_by_interpreting_new_comments(
                  history.handled.new_comments, WorkingStateAtStart))}
    \cup {history.handled.st}

\* What the handling of an earlier issue may have left in the two flags
FlagsLeftBehind == {
    [open |-> "#fixed", close |-> False],
    [open |-> False, close |-> "#wont-fix"]
}

\* The issue phase 2 is about to handle, handled with the flags left as given
HandledWith(flags) ==
    handle_issue_changes(
        [Machine(issues[cursor], 0, 2) EXCEPT !.st.should_open_issue = flags.open,
                                              !.st.should_close_issue = flags.close],
        FALSE)

\* C38: one-shot open/close flags.  At every point of an issue's phase-2
\* handling at most one of should_open_issue and should_close_issue is set;
\* both are reset when the handling begins, so what an earlier handling left
\* in them changes nothing; a pass issues at most one state patch for the
\* issue.
OneShotFlags ==
    /\ InPass
       => /\ \A st \in WorkingStates : AtMostOneFlag(st)
          /\ Cardinality(PatchesOf(history.handled.calls, "state")) <= 1
    /\ pc = "phase2" /\ issues[cursor].number \notin self.ignore
          /\ ~issues[cursor]._should_ignore
       => \A flags \in FlagsLeftBehind :
             HandledWith(flags) = handle_issue_changes(Machine(issues[cursor], 0, 2), FALSE)

\* A pass closed the issue after one of its new comments had scheduled a
\* reopening.
OneShotFlagsWitness ==
    /\ InPass
    /\ StatePatches(history.handled.calls, "closed") # {}
    /\ \E st \in WorkingStates : st.should_open_issue # False

(***************************************************************************)
(* What phase 2 may rely on                                                *)
(***************************************************************************)
\* The fetched issues phase 2 will handle
ToHandle ==
    {n \in DOMAIN issues : issues[n].number \notin self.ignore /\ ~issues[n]._should_ignore}

UserCommentsOf(id) ==
    {github.issues[id].comments[n] : n \in {k \in DOMAIN github.issues[id].comments :
                                               github.issues[id].comments[k].user # GITHUB_USER}}

\* The snapshot of the issue counts the comment as seen: get_new_comments
\* returns only what comes after latest_seen_comment_id.
PassedOver(id, comment) ==
    /\ id \in DOMAIN database.issues
    /\ database.issues[id].latest_seen_comment_id # NoneInt
    /\ comment.id <= database.issues[id].latest_seen_comment_id[1]

\* The latest turn of phase 2 had the comment among its new comments.
ReturnedAsNew(comment) ==
    /\ history.handled.run > 0
    /\ \E k \in DOMAIN history.handled.new_comments :
          history.handled.new_comments[k].id = comment.id

\* The first invocation, outside dry-run mode and without --memorise-forgotten,
\* has ended; no call failed and nothing was killed.
FirstRunOver ==
    /\ pc = "idle"
    /\ history.runs = 1
    /\ ~self.dry_run
    /\ ~self.memorise_forgotten
    /\ history.kills = 0
    /\ history.failures = 0

\* C40: no user comment is lost.  Every comment a user appends to an issue,
\* also between the comment fetch of phase 1 and the paper-trail post of
\* phase 2 of the same run, is returned by get_new_comments in some run: after
\* the first run, a user's comment the snapshot counts as seen is one the run
\* had among its new comments.
NoUserCommentLost ==
    FirstRunOver
    => \A id \in DOMAIN github.issues :
          \A comment \in UserCommentsOf(id) :
             PassedOver(id, comment) => ReturnedAsNew(comment)

=============================================================================
